---- MODULE Spec2Model ----
(***************************************************************************)
(* The Kismet bytecode decompiler.  Graph analyses over a control-flow      *)
(* graph: Spec is DominatorTree::compute, then LoopInfo::analyze on its     *)
(* tree; PdSpec is PostDominatorTree::compute, which reads the graph alone. *)
(* Decoding: ReaderSpec is the primitive reads of ScriptReader; OpcodeSpec   *)
(* is the conversion between opcode bytes and EExprToken; IndexSpec is      *)
(* AddressIndex over a metadata document; FmtSpec is CppFormatter over an   *)
(* expression.                                                              *)
(***************************************************************************)
EXTENDS Integers, Sequences, FiniteSets, TLC

\* ---------------------------------------------------------------- bounds
\* Largest size of an input CFG: its number of basic blocks plus its number of
\* edges (successor entries over all blocks).
MaxSize == 8
\* Largest number of basic blocks of an input CFG: half of its largest size.
MaxBlocks == MaxSize \div 2
\* Largest length of a script buffer filled with arbitrary bytes.
MaxScriptLen == 9
\* Largest size of a metadata document: its number of objects plus its number of
\* properties.
MaxDocSize == 4
\* Largest number of parameters of a call.
MaxParams == 3

\* The most cases of a SwitchValue.
MaxCases == 2

\* The highest indent level given to set_indent_level (main.rs sets 1).
MaxIndent == 2

\* ---------------------------------------------------------------- constants
\* usize::MAX, the id of the virtual exit and the rank of a block that has no
\* rpo_index entry (TLC integers are 32 bits wide; only comparisons use it).
USIZE_MAX == 2147483647

VARIABLES
    cfg,          \* the ControlFlowGraph under analysis
    pc,           \* position in the pipeline of main.rs
    rpo,          \* DominatorTree::compute: reverse postorder
    idom,         \* DominatorTree::compute: idom map (block -> block)
    changed,      \* DominatorTree::compute: the fix-point flag
    dom_seen,     \* the idom maps that passes of the fix-point loop started from
    dom_children, \* DominatorTree.children
    loops,        \* LoopInfo.loops
    exit_blocks,  \* PostDominatorTree.exit_blocks
    pd_rpo,       \* PostDominatorTree::compute: reverse postorder from exits
    ipdom,        \* PostDominatorTree::compute: ipdom map
    pd_changed,   \* PostDominatorTree::compute: the fix-point flag
    pd_i,         \* PostDominatorTree::compute: position of the for loop in pd_rpo
    pd_j,         \* PostDominatorTree::compute: position in the successor loop
    b1,           \* PostDominatorTree::intersect: first cursor
    b2,           \* PostDominatorTree::intersect: second cursor
    pd_children,  \* PostDominatorTree.children
    script,       \* ScriptReader.script
    names,        \* ScriptReader.names
    offset,       \* the caller's offset cursor
    rd,           \* the last read: its method, the cursor it started at, its outcome
    op_start,     \* the value a conversion chain started from: a byte or a token
    op_token,     \* the EExprToken that From<u8> returned: {} before the call
    op_byte,      \* the u8 that opcode_value returned: {} before the call
    jmap,         \* the metadata document (jmap::Jmap)
    aidx,         \* the AddressIndex built over jmap
    lookup,       \* the last call of resolve_object or resolve_property
    expr,         \* the expression given to CppFormatter
    colorize,     \* whether the colored crate emits escape sequences
    fmt_out,      \* what format_expr_inline returned
    indent_level, \* CppFormatter.indent_level
    fmt_call      \* the last call that uses indent_level: its method, the level at
                  \* its entry, its outcome

vars == <<cfg, pc, rpo, idom, changed, dom_seen, dom_children, loops, exit_blocks,
          pd_rpo, ipdom, pd_changed, pd_i, pd_j, b1, b2, pd_children,
          script, names, offset, rd, op_start, op_token, op_byte,
          jmap, aidx, lookup, expr, colorize, fmt_out, indent_level, fmt_call>>

domVars == <<rpo, idom, changed, dom_seen, dom_children>>

pdVars == <<exit_blocks, pd_rpo, ipdom, pd_changed, pd_i, pd_j, b1, b2, pd_children>>

readerVars == <<script, names, offset, rd>>

\* The state of the graph analyses.
graphVars == <<cfg, pc, loops, domVars, pdVars>>

opcodeVars == <<op_start, op_token, op_byte>>

indexVars == <<jmap, aidx, lookup>>

fmtVars == <<expr, colorize, fmt_out, indent_level, fmt_call>>

\* The state of decoding.
decodeVars == <<readerVars, opcodeVars, indexVars, fmtVars>>

\* What the reads of ScriptReader leave alone.
notReaderVars == <<graphVars, opcodeVars, indexVars, fmtVars>>

\* What the opcode conversions leave alone.
notOpcodeVars == <<graphVars, readerVars, indexVars, fmtVars>>

\* What AddressIndex leaves alone.
notIndexVars == <<graphVars, readerVars, opcodeVars, fmtVars>>

\* What CppFormatter leaves alone.
notFmtVars == <<graphVars, readerVars, opcodeVars, indexVars>>

\* ---------------------------------------------------------------- helpers
\* An empty HashMap.
EmptyMap == [x \in {} |-> 0]

\* HashMap::insert.
MapInsert(m, k, v) == [x \in (DOMAIN m) \cup {k} |-> IF x = k THEN v ELSE m[x]]

\* The elements of a Vec.
Range(s) == {s[k] : k \in DOMAIN s}

\* ---------------------------------------------------------------- the CFG
\* BlockId values are dense indices 0..n-1 (spec section 3).
BlockIds(n) == 0..(n - 1)

\* Edge lists of length k in creation order: the edges of block 0 first, then
\* those of block 1, ...; each new edge leaves the source of the last one or a
\* later block.
RECURSIVE EdgeListsOfLen(_, _)
EdgeListsOfLen(n, k) ==
    IF k = 0 THEN {<<>>}
    ELSE UNION {{Append(el, <<s, t>>) :
                    s \in {s \in BlockIds(n) : el = <<>> \/ el[Len(el)][1] <= s},
                    t \in BlockIds(n)} :
                el \in EdgeListsOfLen(n, k - 1)}

\* The edge lists of at most `most` edges.
EdgeLists(n, most) == UNION {EdgeListsOfLen(n, k) : k \in 0..most}

\* The targets of the edges leaving b, in order.
RECURSIVE SuccessorsOf(_, _, _)
SuccessorsOf(el, b, k) ==
    IF k > Len(el) THEN <<>>
    ELSE IF el[k][1] = b THEN <<el[k][2]>> \o SuccessorsOf(el, b, k + 1)
    ELSE SuccessorsOf(el, b, k + 1)

\* The sources of the edges entering b, in order.
RECURSIVE PredecessorsOf(_, _, _)
PredecessorsOf(el, b, k) ==
    IF k > Len(el) THEN <<>>
    ELSE IF el[k][2] = b THEN <<el[k][1]>> \o PredecessorsOf(el, b, k + 1)
    ELSE PredecessorsOf(el, b, k + 1)

\* A ControlFlowGraph of n blocks with the given edges; entry_block is block 0.
ControlFlowGraph(n, el) ==
    [blocks |-> [b \in BlockIds(n) |->
                    [id |-> b,
                     successors |-> SuccessorsOf(el, b, 1),
                     predecessors |-> PredecessorsOf(el, b, 1)]],
     entry_block |-> 0]

\* ControlFlowGraph::get_block: Some(block) exactly for the ids of the graph.
HasBlock(g, id) == id \in DOMAIN g.blocks

\* cfg.blocks.is_empty()
IsEmpty(g) == DOMAIN g.blocks = {}

\* ---------------------------------------------------------------- dominators
\* DominatorTree::reverse_postorder, the inner fn dfs: st = [visited, postorder].
RECURSIVE dfs(_, _, _)
RECURSIVE dfs_successors(_, _, _, _)
dfs(g, block_id, st) ==
    IF block_id \in st.visited THEN st
    ELSE LET st1 == [st EXCEPT !.visited = @ \cup {block_id}]
             st2 == IF HasBlock(g, block_id)
                    THEN dfs_successors(g, g.blocks[block_id].successors, 1, st1)
                    ELSE st1
         IN [st2 EXCEPT !.postorder = Append(@, block_id)]

dfs_successors(g, succs, k, st) ==
    IF k > Len(succs) THEN st
    ELSE dfs_successors(g, succs, k + 1, dfs(g, succs[k], st))

\* Vec::reverse
Reverse(s) == [k \in 1..Len(s) |-> s[Len(s) + 1 - k]]

reverse_postorder(g, entry) ==
    Reverse(dfs(g, entry, [visited |-> {}, postorder |-> <<>>]).postorder)

\* rpo_index: block -> position in the reverse postorder, from 0.
RpoIndex(order) ==
    [b \in Range(order) |-> (CHOOSE k \in 1..Len(order) : order[k] = b) - 1]

\* DominatorTree::intersect
RECURSIVE intersect_up(_, _, _, _)
intersect_up(im, index, x, y) ==
    IF index[x] > index[y] THEN intersect_up(im, index, im[x], y) ELSE x

RECURSIVE intersect(_, _, _, _)
intersect(im, index, x, y) ==
    IF x = y THEN x
    ELSE LET x1 == intersect_up(im, index, x, y)
             y1 == intersect_up(im, index, y, x1)
         IN intersect(im, index, x1, y1)

\* The first predecessor that has an idom entry: {} for None, {p} for Some(p).
RECURSIVE FirstProcessed(_, _, _)
FirstProcessed(im, list, k) ==
    IF k > Len(list) THEN {}
    ELSE IF list[k] \in DOMAIN im THEN {list[k]}
    ELSE FirstProcessed(im, list, k + 1)

\* compute without the loop "for all other predecessors": the first processed
\* predecessor is taken as the immediate dominator.
IntersectPreds_skip(im, index, preds, k, new_idom_id) == new_idom_id

\* The loop "for all other predecessors": folds intersect over the processed ones.
RECURSIVE IntersectPreds(_, _, _, _, _)
IntersectPreds(im, index, preds, k, new_idom_id) ==
    IF k > Len(preds) THEN new_idom_id
    ELSE IF preds[k] # new_idom_id /\ preds[k] \in DOMAIN im
         THEN IntersectPreds(im, index, preds, k + 1,
                             intersect(im, index, preds[k], new_idom_id))
         ELSE IntersectPreds(im, index, preds, k + 1, new_idom_id)

\* The test of compute that never finds the entry of the block up to date.
IdomDiffers_always(im, block_id, new_idom_id) == TRUE

\* idom.get(&block_id) != Some(&new_idom_id)
IdomDiffers(im, block_id, new_idom_id) ==
    ~(block_id \in DOMAIN im /\ im[block_id] = new_idom_id)

\* One pass of "for &block_id in rpo.iter().skip(1)": st = [idom, changed].
RECURSIVE DomSweep(_, _, _, _, _)
DomSweep(g, order, index, k, st) ==
    IF k > Len(order) THEN st
    ELSE LET block == g.blocks[order[k]]
             new_idom == FirstProcessed(st.idom, block.predecessors, 1)
         IN IF new_idom = {} THEN DomSweep(g, order, index, k + 1, st)
            ELSE LET first == CHOOSE p \in new_idom : TRUE
                     new_idom_id == IntersectPreds(st.idom, index, block.predecessors,
                                                   1, first)
                 IN IF IdomDiffers(st.idom, order[k], new_idom_id)
                    THEN DomSweep(g, order, index, k + 1,
                                  [idom |-> MapInsert(st.idom, order[k], new_idom_id),
                                   changed |-> TRUE])
                    ELSE DomSweep(g, order, index, k + 1, st)

\* Step 4 of compute: parent -> the children pushed for it.  The Vec is filled in
\* HashMap iteration order, which is unspecified; the map is kept as sets.
ChildrenOf(im) ==
    [p \in {im[c] : c \in {c \in DOMAIN im : c # im[c]}} |->
        {c \in DOMAIN im : c # im[c] /\ im[c] = p}]

\* dominates that looks at the immediate dominator only, not up the chain.
dominates_walk_once(im, dominator, current) ==
    current \in DOMAIN im /\ im[current] # current /\ im[current] = dominator

\* DominatorTree::dominates, the while loop.
RECURSIVE dominates_walk(_, _, _)
dominates_walk(im, dominator, current) ==
    IF current \notin DOMAIN im THEN FALSE
    ELSE IF im[current] = current THEN FALSE
    ELSE IF im[current] = dominator THEN TRUE
    ELSE dominates_walk(im, dominator, im[current])

\* dominates without the test "dominator == dominated".
dominates_irreflexive(im, dominator, dominated) ==
    dominates_walk(im, dominator, dominated)

\* DominatorTree::dominates, from the test "dominator == dominated".
dominates(im, dominator, dominated) ==
    IF dominator = dominated THEN TRUE
    ELSE dominates_walk(im, dominator, dominated)

\* DominatorTree::strictly_dominates
strictly_dominates(im, dominator, dominated) ==
    dominator # dominated /\ dominates(im, dominator, dominated)

\* DominatorTree::dominated_by: the worklist loop.  The worklist is a stack in
\* the code; the result does not depend on the order, and it is kept as a set.
RECURSIVE dominated_by_work(_, _, _)
dominated_by_work(children, result, worklist) ==
    IF worklist = {} THEN result
    ELSE LET block == CHOOSE w \in worklist : TRUE
             inserted == IF block \in DOMAIN children
                         THEN children[block] \ result
                         ELSE {}
         IN dominated_by_work(children, result \cup inserted,
                              (worklist \ {block}) \cup inserted)

\* dominated_by without its worklist: the block and its children in the tree.
dominated_by_children_only(children, dominator) ==
    {dominator} \cup (IF dominator \in DOMAIN children THEN children[dominator] ELSE {})

\* DominatorTree::dominated_by
dominated_by(children, dominator) ==
    dominated_by_work(children, {dominator}, {dominator})

\* dominance_frontier that leaves out every block that the block dominates, the
\* block itself included.
dominance_frontier_not_dominated(g, im, children, block) ==
    {s \in UNION {Range(g.blocks[y].successors) :
                     y \in {y \in dominated_by(children, block) : HasBlock(g, y)}} :
        ~dominates(im, block, s)}

\* DominatorTree::dominance_frontier
dominance_frontier(g, im, children, block) ==
    {s \in UNION {Range(g.blocks[y].successors) :
                     y \in {y \in dominated_by(children, block) : HasBlock(g, y)}} :
        ~strictly_dominates(im, block, s)}

\* ---------------------------------------------------------------- loops
\* Loop::new
NewLoop(header) ==
    [header |-> header, blocks |-> {}, back_edges |-> <<>>, exit_blocks |-> {},
     parent |-> {}, children |-> <<>>]

\* find_back_edges with the arguments of dominates exchanged.
RECURSIVE BackEdgesOfBlock_swapped(_, _, _, _)
BackEdgesOfBlock_swapped(im, id, succs, k) ==
    IF k > Len(succs) THEN <<>>
    ELSE IF dominates(im, id, succs[k])
         THEN <<<<id, succs[k]>>>> \o BackEdgesOfBlock_swapped(im, id, succs, k + 1)
         ELSE BackEdgesOfBlock_swapped(im, id, succs, k + 1)

\* LoopInfo::find_back_edges: the edges (block, succ) with dominates(succ, block),
\* in the order of cfg.blocks and of each successor list.
RECURSIVE BackEdgesOfBlock(_, _, _, _)
BackEdgesOfBlock(im, id, succs, k) ==
    IF k > Len(succs) THEN <<>>
    ELSE IF dominates(im, succs[k], id)
         THEN <<<<id, succs[k]>>>> \o BackEdgesOfBlock(im, id, succs, k + 1)
         ELSE BackEdgesOfBlock(im, id, succs, k + 1)

RECURSIVE find_back_edges_from(_, _, _)
find_back_edges_from(g, im, b) ==
    IF ~HasBlock(g, b) THEN <<>>
    ELSE BackEdgesOfBlock(im, b, g.blocks[b].successors, 1)
         \o find_back_edges_from(g, im, b + 1)

find_back_edges(g, im) == find_back_edges_from(g, im, 0)

\* LoopInfo::find_natural_loop, the worklist loop: st = [loop_blocks, worklist].
RECURSIVE NaturalLoopPreds(_, _, _, _)
NaturalLoopPreds(header, preds, k, st) ==
    IF k > Len(preds) THEN st
    ELSE IF preds[k] # header /\ preds[k] \notin st.loop_blocks
         THEN NaturalLoopPreds(header, preds, k + 1,
                               [loop_blocks |-> st.loop_blocks \cup {preds[k]},
                                worklist |-> Append(st.worklist, preds[k])])
         ELSE NaturalLoopPreds(header, preds, k + 1, st)

RECURSIVE NaturalLoopWork(_, _, _)
NaturalLoopWork(g, header, st) ==
    IF st.worklist = <<>> THEN st.loop_blocks
    ELSE LET block_id == Head(st.worklist)
             rest == [st EXCEPT !.worklist = Tail(@)]
         IN IF HasBlock(g, block_id)
            THEN NaturalLoopWork(g, header,
                     NaturalLoopPreds(header, g.blocks[block_id].predecessors, 1, rest))
            ELSE NaturalLoopWork(g, header, rest)

find_natural_loop(g, header, latch) ==
    NaturalLoopWork(g, header, [loop_blocks |-> {header, latch}, worklist |-> <<latch>>])

\* LoopInfo::find_exit_blocks
find_exit_blocks(g, loop_blocks) ==
    {block_id \in loop_blocks :
        /\ HasBlock(g, block_id)
        /\ \E k \in DOMAIN g.blocks[block_id].successors :
              g.blocks[block_id].successors[k] \notin loop_blocks}

\* The position of the loop with this header (loop_map.get): {} or {idx}.
\* Positions in the list count from 1 here, from 0 in the source.
LoopIdx(ls, header) == {k \in DOMAIN ls : ls[k].header = header}

\* Step 2 of analyze: one loop per header, each back edge added to its loop.
RECURSIVE BuildLoops(_, _, _, _)
BuildLoops(g, back_edges, k, ls) ==
    IF k > Len(back_edges) THEN ls
    ELSE LET latch == back_edges[k][1]
             header == back_edges[k][2]
             ls1 == IF LoopIdx(ls, header) = {} THEN Append(ls, NewLoop(header)) ELSE ls
             loop_idx == CHOOSE i \in LoopIdx(ls1, header) : TRUE
             ls2 == [ls1 EXCEPT ![loop_idx].back_edges = Append(@, <<latch, header>>),
                                ![loop_idx].blocks =
                                    @ \cup find_natural_loop(g, header, latch)]
         IN BuildLoops(g, back_edges, k + 1, ls2)

\* Step 3 of analyze.
WithExitBlocks(g, ls) ==
    [k \in DOMAIN ls |-> [ls[k] EXCEPT !.exit_blocks = find_exit_blocks(g, ls[k].blocks)]]

\* build_loop_tree: the loops j that loop i is nested in, in the order of j.
potential_parents(ls, i) ==
    SelectSeq([j \in 1..Len(ls) |-> j],
              LAMBDA j : /\ i # j
                         /\ ls[i].header # ls[j].header
                         /\ ls[i].blocks \subseteq ls[j].blocks)

\* build_loop_tree: the first of the smallest potential parents.
RECURSIVE Innermost(_, _, _, _)
Innermost(ls, pp, k, innermost) ==
    IF k > Len(pp) THEN innermost
    ELSE IF Cardinality(ls[pp[k]].blocks) < Cardinality(ls[innermost].blocks)
         THEN Innermost(ls, pp, k + 1, pp[k])
         ELSE Innermost(ls, pp, k + 1, innermost)

ParentOf(ls, i) ==
    LET pp == potential_parents(ls, i)
    IN IF pp = <<>> THEN {} ELSE {Innermost(ls, pp, 1, pp[1])}

\* LoopInfo::build_loop_tree
build_loop_tree(ls) ==
    LET withParent == [i \in DOMAIN ls |-> [ls[i] EXCEPT !.parent = ParentOf(ls, i)]]
    IN [p \in DOMAIN ls |->
           [withParent[p] EXCEPT !.children =
               SelectSeq([i \in 1..Len(ls) |-> i], LAMBDA i : withParent[i].parent = {p})]]

\* LoopInfo::analyze
analyze(g, im) ==
    build_loop_tree(WithExitBlocks(g, BuildLoops(g, find_back_edges(g, im), 1, <<>>)))

\* ---------------------------------------------------------------- post-dominators
\* BlockId(usize::MAX)
virtual_exit == USIZE_MAX

\* Step 1 without the last block as the exit of a CFG whose blocks all have
\* successors.
ExitBlocksOf_no_last_block(g) ==
    {b \in DOMAIN g.blocks : g.blocks[b].successors = <<>>}

\* Step 1 of PostDominatorTree::compute: the blocks without successors, or the
\* last block of cfg.blocks when there is none.
ExitBlocksOf(g) ==
    LET noSucc == {b \in DOMAIN g.blocks : g.blocks[b].successors = <<>>}
    IN IF noSucc = {}
       THEN {b \in DOMAIN g.blocks : \A c \in DOMAIN g.blocks : c <= b}
       ELSE noSucc

\* The orders in which a HashSet may be iterated.
IterationOrders(S) ==
    {o \in [1..Cardinality(S) -> S] : \A x \in S : \E k \in DOMAIN o : o[k] = x}

\* PostDominatorTree::reverse_postorder_from_exits, the inner fn dfs_reverse.
RECURSIVE dfs_reverse(_, _, _)
RECURSIVE dfs_reverse_preds(_, _, _, _)
dfs_reverse(g, block_id, st) ==
    IF block_id \in st.visited THEN st
    ELSE LET st1 == [st EXCEPT !.visited = @ \cup {block_id}]
             st2 == IF HasBlock(g, block_id)
                    THEN dfs_reverse_preds(g, g.blocks[block_id].predecessors, 1, st1)
                    ELSE st1
         IN [st2 EXCEPT !.postorder = Append(@, block_id)]

dfs_reverse_preds(g, preds, k, st) ==
    IF k > Len(preds) THEN st
    ELSE dfs_reverse_preds(g, preds, k + 1, dfs_reverse(g, preds[k], st))

\* The loop "for &exit in exit_blocks", in the iteration order `exits`.
RECURSIVE DfsFromExits(_, _, _, _)
DfsFromExits(g, exits, k, st) ==
    IF k > Len(exits) THEN st
    ELSE DfsFromExits(g, exits, k + 1, dfs_reverse(g, exits[k], st))

reverse_postorder_from_exits(g, exits) ==
    Reverse(DfsFromExits(g, exits, 1, [visited |-> {}, postorder |-> <<>>]).postorder)

\* rpo_index.get(&b).copied().unwrap_or(usize::MAX)
RankOf(index, b) == IF b \in DOMAIN index THEN index[b] ELSE USIZE_MAX

\* PostDominatorTree::intersect, one step from the cursors (x, y): the test of the
\* while loop that is running and, when it holds, its body.  [ret |-> TRUE] with
\* b1 = b2 = the value returned, or [ret |-> FALSE] with the cursors after the step.
intersect_step(im, index, x, y) ==
    IF x = y THEN [ret |-> TRUE, b1 |-> x, b2 |-> x]
    ELSE IF RankOf(index, x) > RankOf(index, y)
         THEN IF x \in DOMAIN im
              THEN [ret |-> FALSE, b1 |-> im[x], b2 |-> y]
              ELSE [ret |-> TRUE, b1 |-> y, b2 |-> y]
    ELSE IF RankOf(index, y) > RankOf(index, x)
         THEN IF y \in DOMAIN im
              THEN [ret |-> FALSE, b1 |-> x, b2 |-> im[y]]
              ELSE [ret |-> TRUE, b1 |-> x, b2 |-> x]
    ELSE [ret |-> FALSE, b1 |-> x, b2 |-> y]

\* Step 4 of compute: the virtual exit is its own ipdom, and that of every exit.
InitialIpdom(exits) == [b \in exits \cup {virtual_exit} |-> virtual_exit]

\* compute without the loop "for all other successors": the first processed
\* successor is taken as the immediate post-dominator.
SuccessorLoop_skip(im, succs, k, new_ipdom_id) ==
    [call |-> FALSE, new_ipdom_id |-> new_ipdom_id]

\* The loop "for all other successors" up to its next call of intersect:
\* [call |-> TRUE, j, b1, b2] for a call intersect(b1, b2) made at position j,
\* [call |-> FALSE, new_ipdom_id] when the loop ends.
RECURSIVE SuccessorLoop(_, _, _, _)
SuccessorLoop(im, succs, k, new_ipdom_id) ==
    IF k > Len(succs) THEN [call |-> FALSE, new_ipdom_id |-> new_ipdom_id]
    ELSE IF succs[k] # new_ipdom_id /\ succs[k] \in DOMAIN im
         THEN [call |-> TRUE, j |-> k, b1 |-> succs[k], b2 |-> new_ipdom_id]
         ELSE SuccessorLoop(im, succs, k + 1, new_ipdom_id)

\* Step 6 of compute: the children map, without the children of the virtual exit.
\* The Vec is filled in HashMap iteration order; the map is kept as sets.
PdChildrenOf(im) ==
    [p \in {im[c] : c \in {c \in DOMAIN im : c # im[c] /\ im[c] # virtual_exit}} |->
        {c \in DOMAIN im : c # im[c] /\ im[c] = p}]

\* PostDominatorTree::post_dominates
RECURSIVE post_dominates_walk(_, _, _)
post_dominates_walk(im, postdom, current) ==
    IF current \notin DOMAIN im THEN FALSE
    ELSE IF im[current] = current \/ im[current] = virtual_exit THEN FALSE
    ELSE IF im[current] = postdom THEN TRUE
    ELSE post_dominates_walk(im, postdom, im[current])

post_dominates(im, postdom, postdominated) ==
    IF postdom = postdominated THEN TRUE
    ELSE post_dominates_walk(im, postdom, postdominated)

\* PostDominatorTree::strictly_post_dominates
strictly_post_dominates(im, postdom, postdominated) ==
    postdom # postdominated /\ post_dominates(im, postdom, postdominated)

\* PostDominatorTree::immediate_post_dominator: {} for None, {x} for Some(x).
immediate_post_dominator(im, block) ==
    IF block \in DOMAIN im /\ im[block] # block /\ im[block] # virtual_exit
    THEN {im[block]} ELSE {}

\* The first loop stopped after its first block: the immediate post-dominator only.
collect_postdoms_immediate(im, current) ==
    IF current \notin DOMAIN im THEN {}
    ELSE IF im[current] = current \/ im[current] = virtual_exit THEN {}
    ELSE {im[current]}

\* immediate_common_post_dominator, first loop: the post-dominators of b1.
RECURSIVE collect_postdoms(_, _)
collect_postdoms(im, current) ==
    IF current \notin DOMAIN im THEN {}
    ELSE IF im[current] = current \/ im[current] = virtual_exit THEN {}
    ELSE {im[current]} \cup collect_postdoms(im, im[current])

\* The last block, not the first, on the ipdom chain above `current` that is in
\* `targets`.
RECURSIVE first_on_chain_last(_, _, _)
first_on_chain_last(im, current, targets) ==
    IF current \notin DOMAIN im THEN {}
    ELSE IF im[current] = current \/ im[current] = virtual_exit THEN {}
    ELSE LET above == first_on_chain_last(im, im[current], targets)
         IN IF above # {} THEN above
            ELSE IF im[current] \in targets THEN {im[current]}
            ELSE {}

\* immediate_common_post_dominator, second and third loop: the first block on the
\* ipdom chain above `current` that is in `targets`; {} for none.
RECURSIVE first_on_chain(_, _, _)
first_on_chain(im, current, targets) ==
    IF current \notin DOMAIN im THEN {}
    ELSE IF im[current] = current \/ im[current] = virtual_exit THEN {}
    ELSE IF im[current] \in targets THEN {im[current]}
    ELSE first_on_chain(im, im[current], targets)

\* immediate_common_post_dominator without its second loop (the symmetric case).
icpd_without_symmetric_case(im, x, y) ==
    LET b1_postdoms == collect_postdoms(im, x)
    IN IF y \in b1_postdoms THEN {y} ELSE first_on_chain(im, y, b1_postdoms)

\* PostDominatorTree::immediate_common_post_dominator: {} for None, {x} for Some(x).
immediate_common_post_dominator(im, x, y) ==
    LET b1_postdoms == collect_postdoms(im, x)
    IN IF y \in b1_postdoms THEN {y}
       ELSE IF first_on_chain(im, y, {x}) # {} THEN {x}
       ELSE first_on_chain(im, y, b1_postdoms)

\* One pass of "for &block_id in &rpo" of PostDominatorTree::compute, from block
\* order[st.i] on, up to its next call of intersect or to its end.  st = [ipdom,
\* changed, i, k, new]: k = 0 at the start of a block's body, else the position
\* in the loop "for all other successors", where new_ipdom_id = new.  The result
\* names where the pass stands: at a call intersect(b1, b2) made for successor j
\* of block order[i] ("pd_intersect"), or back at "while changed" ("pd_loop").
RECURSIVE PdSweep(_, _, _, _)
PdSweep(g, exits, order, st) ==
    IF st.i > Len(order)
    THEN [pc |-> "pd_loop", ipdom |-> st.ipdom, changed |-> st.changed,
          i |-> 0, j |-> 0, b1 |-> 0, b2 |-> 0]
    ELSE LET block_id == order[st.i]
             succs == g.blocks[block_id].successors
         IN IF st.k = 0
            THEN LET new_ipdom == FirstProcessed(st.ipdom, succs, 1)
                 IN IF block_id \in exits \/ new_ipdom = {}
                    THEN PdSweep(g, exits, order, [st EXCEPT !.i = @ + 1])
                    ELSE PdSweep(g, exits, order,
                                 [st EXCEPT !.k = 1,
                                            !.new = CHOOSE x \in new_ipdom : TRUE])
            ELSE LET r == SuccessorLoop(st.ipdom, succs, st.k, st.new)
                 IN IF r.call
                    THEN [pc |-> "pd_intersect", ipdom |-> st.ipdom,
                          changed |-> st.changed,
                          i |-> st.i, j |-> r.j, b1 |-> r.b1, b2 |-> r.b2]
                    ELSE IF block_id \in DOMAIN st.ipdom
                            /\ st.ipdom[block_id] = r.new_ipdom_id
                    THEN PdSweep(g, exits, order, [st EXCEPT !.i = @ + 1, !.k = 0])
                    ELSE PdSweep(g, exits, order,
                                 [ipdom |-> MapInsert(st.ipdom, block_id, r.new_ipdom_id),
                                  changed |-> TRUE, i |-> st.i + 1, k |-> 0, new |-> 0])

\* ---------------------------------------------------------------- the reader
\* The byte values of the scripts filled with arbitrary bytes.
Bytes == {0, 65}

\* The byte sequences of at most n bytes.
ByteSeqs(n) == UNION {[1..k -> Bytes] : k \in 0..n}

\* A u32 is kept as two 16-bit limbs, least significant first (its value may
\* be 2^31 or more); this is the u32 of a small number.
U32(v) == <<v % 65536, v \div 65536>>

\* The four bytes of a u32, least significant first; -1 stands for 0xFFFFFFFF.
LE32(v) == <<v % 256, (v \div 256) % 256, (v \div 65536) % 256, (v \div 16777216) % 256>>

\* Scripts that hold one FScriptName: comparison_index, display_index, number.
NameScripts ==
    {LE32(c) \o LE32(d) \o LE32(n) :
        c \in {0, 7}, d \in {42, 99, 298, -1}, n \in {0, 1, 3, -1}}

\* The 16-bit units of the strings, low byte first: 'A', the first and the last
\* surrogate (0xD800, 0xDFFF), the first unit after the surrogates (0xE000), and
\* the terminator.
Utf16Units == {<<65, 0>>, <<0, 216>>, <<255, 223>>, <<0, 224>>, <<0, 0>>}

\* The scripts of at most three 16-bit units.
Utf16Scripts ==
    {<<>>}
    \cup Utf16Units
    \cup {u \o v : u \in Utf16Units, v \in Utf16Units}
    \cup {u \o v \o w : u \in Utf16Units, v \in Utf16Units, w \in Utf16Units}

\* The script buffers: arbitrary bytes, one FScriptName, one FScriptName cut
\* short by a byte, and 16-bit units.
Scripts ==
    ByteSeqs(MaxScriptLen) \cup NameScripts \cup {SubSeq(sc, 1, 11) : sc \in NameScripts}
    \cup Utf16Scripts

\* The name tables.
NameTables == {EmptyMap, (U32(42) :> "Foo" @@ U32(298) :> "Bar")}

\* A read that returned `value` and left the cursor at `o`.
Ok(value, o) == [outcome |-> "ok", value |-> value, offset |-> o]

\* A read that panicked (index or slice range out of bounds) with the cursor at `o`.
Panic(o) == [outcome |-> "panic", value |-> 0, offset |-> o]

\* self.script[*offset..*offset + n] is within the buffer.
InRange(s, o, n) == o + n <= Len(s)

\* self.script[*offset..*offset + n]
Slice(s, o, n) == SubSeq(s, o + 1, o + n)

\* u16::from_be_bytes: the first byte is the most significant.
u16_from_be_bytes(bytes) == 256 * bytes[1] + bytes[2]

\* u16::from_le_bytes
u16_from_le_bytes(bytes) == bytes[1] + 256 * bytes[2]

\* i32::from_le_bytes: two's complement, the last byte holds the sign.
i32_from_le_bytes(bytes) ==
    bytes[1] + 256 * bytes[2] + 65536 * bytes[3]
        + 16777216 * (IF bytes[4] >= 128 THEN bytes[4] - 256 ELSE bytes[4])

\* u64::from_le_bytes, kept as four 16-bit limbs, least significant first.
u64_from_le_bytes(bytes) ==
    <<u16_from_le_bytes(SubSeq(bytes, 1, 2)), u16_from_le_bytes(SubSeq(bytes, 3, 4)),
      u16_from_le_bytes(SubSeq(bytes, 5, 6)), u16_from_le_bytes(SubSeq(bytes, 7, 8))>>

\* `as u32` of an i32: the value modulo 2^32, kept as two 16-bit limbs, least
\* significant first (the value may be 2^31 or more).
AsU32(v) == <<v % 65536, (v \div 65536) % 65536>>

\* The last five decimal digits of a number.
Pad5(v) == SubSeq("00000", 1, 5 - Len(ToString(v))) \o ToString(v)

\* Display of a u32 ("{}"): its decimal digits.  The value is split at 10^5, half
\* of the high limb at a time.
U32ToString(u) ==
    LET half == (u[2] \div 2) * 65536
        low == 2 * (half % 100000) + (u[2] % 2) * 65536 + u[1]
        high == 2 * (half \div 100000) + low \div 100000
    IN IF high = 0 THEN ToString(low) ELSE ToString(high) \o Pad5(low % 100000)

\* number - 1 of a u32 that is not 0.
U32Pred(u) == IF u[1] > 0 THEN <<u[1] - 1, u[2]>> ELSE <<65535, u[2] - 1>>

\* ScriptReader::read_byte
read_byte(s, o) ==
    IF o < Len(s) THEN Ok(s[o + 1], o + 1) ELSE Panic(o)

\* ScriptReader::read_word
read_word(s, o) ==
    IF InRange(s, o, 2) THEN Ok(u16_from_le_bytes(Slice(s, o, 2)), o + 2) ELSE Panic(o)

\* ScriptReader::read_int
read_int(s, o) ==
    IF InRange(s, o, 4) THEN Ok(i32_from_le_bytes(Slice(s, o, 4)), o + 4) ELSE Panic(o)

\* read_qword that moves the cursor by four bytes.
read_qword_advances_4(s, o) ==
    IF InRange(s, o, 8) THEN Ok(u64_from_le_bytes(Slice(s, o, 8)), o + 4) ELSE Panic(o)

\* ScriptReader::read_qword
read_qword(s, o) ==
    IF InRange(s, o, 8) THEN Ok(u64_from_le_bytes(Slice(s, o, 8)), o + 8) ELSE Panic(o)

\* ScriptReader::read_float: the f32 is kept as its bit pattern.
read_float(s, o) ==
    LET int_value == read_int(s, o)
    IN IF int_value.outcome = "panic" THEN int_value
       ELSE Ok([bits |-> AsU32(int_value.value)], int_value.offset)

\* ScriptReader::read_skip_count
read_skip_count(s, o) ==
    LET int_value == read_int(s, o)
    IN IF int_value.outcome = "panic" THEN int_value
       ELSE Ok(AsU32(int_value.value), int_value.offset)

\* ScriptReader::read_string8, the loop: `result` holds the chars pushed so far, a
\* String being the sequence of its code points (`byte as char` keeps the number).
RECURSIVE read_string8_loop(_, _, _)
read_string8_loop(s, o, result) ==
    LET byte == read_byte(s, o)
    IN IF byte.outcome = "panic" THEN byte
       ELSE IF byte.value = 0 THEN Ok(result, byte.offset)
       ELSE read_string8_loop(s, byte.offset, Append(result, byte.value))

read_string8(s, o) == read_string8_loop(s, o, <<>>)

\* char::from_u32 that is Some for every unit.
IsChar_every_unit(word) == TRUE

\* char::from_u32 is Some: the value is not a surrogate (a u16 is below 0x110000).
IsChar(word) == ~(word >= 55296 /\ word <= 57343)

\* ScriptReader::read_string16, the loop.
RECURSIVE read_string16_loop(_, _, _)
read_string16_loop(s, o, result) ==
    LET word == read_word(s, o)
    IN IF word.outcome = "panic" THEN word
       ELSE IF word.value = 0 THEN Ok(result, word.offset)
       ELSE read_string16_loop(s, word.offset,
                               IF IsChar(word.value) THEN Append(result, word.value)
                               ELSE result)

read_string16(s, o) == read_string16_loop(s, o, <<>>)

\* format!("UnknownName_{}", display_index)
UnknownName(display_index) == "UnknownName_" \o U32ToString(display_index)

\* read_name that appends the number itself.
read_name_keeps_number(s, nm, o) ==
    LET c == read_int(s, o)
        d == read_int(s, c.offset)
        n == read_int(s, d.offset)
    IN IF c.outcome = "panic" THEN c
       ELSE IF d.outcome = "panic" THEN d
       ELSE IF n.outcome = "panic" THEN n
       ELSE LET display_index == AsU32(d.value)
                number == AsU32(n.value)
                base_name == IF display_index \in DOMAIN nm THEN nm[display_index]
                             ELSE UnknownName(display_index)
            IN Ok(IF number = U32(0) THEN base_name
                  ELSE base_name \o "_" \o U32ToString(number), n.offset)

\* ScriptReader::read_name: a Name is its string.
read_name(s, nm, o) ==
    LET c == read_int(s, o)
        d == read_int(s, c.offset)
        n == read_int(s, d.offset)
    IN IF c.outcome = "panic" THEN c
       ELSE IF d.outcome = "panic" THEN d
       ELSE IF n.outcome = "panic" THEN n
       ELSE LET display_index == AsU32(d.value)
                number == AsU32(n.value)
                base_name == IF display_index \in DOMAIN nm THEN nm[display_index]
                             ELSE UnknownName(display_index)
            IN Ok(IF number = U32(0) THEN base_name
                  ELSE base_name \o "_" \o U32ToString(U32Pred(number)), n.offset)

\* ScriptReader::read_address: an Address is its u64.
read_address(s, o) == read_qword(s, o)

\* ---------------------------------------------------------------- opcodes
\* The values of a u8.
U8 == 0..255

\* The table of define_opcodes!: (value, variant), in the order of the source.
OpcodeTable ==
    <<<<0, "LocalVariable">>, <<1, "InstanceVariable">>,
      <<2, "DefaultVariable">>, <<4, "Return">>, <<6, "Jump">>,
      <<7, "JumpIfNot">>, <<9, "Assert">>, <<11, "Nothing">>,
      <<12, "NothingInt32">>, <<15, "Let">>, <<17, "BitFieldConst">>,
      <<18, "ClassContext">>, <<19, "MetaCast">>, <<20, "LetBool">>,
      <<21, "EndParmValue">>, <<22, "EndFunctionParms">>, <<23, "Self_">>,
      <<24, "Skip">>, <<25, "Context">>, <<26, "ContextFailSilent">>,
      <<27, "VirtualFunction">>, <<28, "FinalFunction">>, <<29, "IntConst">>,
      <<30, "FloatConst">>, <<31, "StringConst">>, <<32, "ObjectConst">>,
      <<33, "NameConst">>, <<34, "RotationConst">>, <<35, "VectorConst">>,
      <<36, "ByteConst">>, <<37, "IntZero">>, <<38, "IntOne">>, <<39, "True">>,
      <<40, "False">>, <<41, "TextConst">>, <<42, "NoObject">>,
      <<43, "TransformConst">>, <<44, "IntConstByte">>, <<45, "NoInterface">>,
      <<46, "DynamicCast">>, <<47, "StructConst">>, <<48, "EndStructConst">>,
      <<49, "SetArray">>, <<50, "EndArray">>, <<51, "PropertyConst">>,
      <<52, "UnicodeStringConst">>, <<53, "Int64Const">>, <<54, "UInt64Const">>,
      <<56, "PrimitiveCast">>, <<57, "SetSet">>, <<58, "EndSet">>,
      <<59, "SetMap">>, <<60, "EndMap">>, <<61, "SetConst">>,
      <<62, "EndSetConst">>, <<63, "MapConst">>, <<64, "EndMapConst">>,
      <<66, "StructMemberContext">>, <<67, "LetMulticastDelegate">>,
      <<68, "LetDelegate">>, <<69, "LocalVirtualFunction">>,
      <<70, "LocalFinalFunction">>, <<72, "LocalOutVariable">>,
      <<74, "DeprecatedOp4A">>, <<75, "InstanceDelegate">>,
      <<76, "PushExecutionFlow">>, <<77, "PopExecutionFlow">>,
      <<78, "ComputedJump">>, <<79, "PopExecutionFlowIfNot">>,
      <<80, "Breakpoint">>, <<81, "InterfaceContext">>,
      <<82, "ObjToInterfaceCast">>, <<83, "EndOfScript">>,
      <<84, "CrossInterfaceCast">>, <<85, "InterfaceToObjCast">>,
      <<90, "WireTracepoint">>, <<91, "SkipOffsetConst">>,
      <<92, "AddMulticastDelegate">>, <<93, "ClearMulticastDelegate">>,
      <<94, "Tracepoint">>, <<95, "LetObj">>, <<96, "LetWeakObjPtr">>,
      <<97, "BindDelegate">>, <<98, "RemoveMulticastDelegate">>,
      <<99, "CallMulticastDelegate">>, <<100, "LetValueOnPersistentFrame">>,
      <<101, "ArrayConst">>, <<102, "EndArrayConst">>,
      <<103, "SoftObjectConst">>, <<104, "CallMath">>, <<105, "SwitchValue">>,
      <<106, "InstrumentationEvent">>, <<107, "ArrayGetByRef">>,
      <<108, "ClassSparseDataVariable">>, <<109, "FieldPathConst">>>>

\* A variant of EExprToken without payload.
Named(variant) == [variant |-> variant, val |-> 0]

\* EExprToken::Unknown(val)
Unknown(val) == [variant |-> "Unknown", val |-> val]

\* The positions of the match arms that a value selects: the first arm whose
\* pattern matches is taken.
ArmsOf(value) == {k \in DOMAIN OpcodeTable : OpcodeTable[k][1] = value}

\* impl From<u8> for EExprToken
from_u8(value) ==
    IF ArmsOf(value) # {}
    THEN Named(OpcodeTable[CHOOSE k \in ArmsOf(value) : \A m \in ArmsOf(value) : k <= m][2])
    ELSE Unknown(value)

\* opcode_value that gives 0 for Unknown.
opcode_value_unknown_is_0(token) ==
    IF token.variant = "Unknown" THEN 0
    ELSE OpcodeTable[CHOOSE k \in DOMAIN OpcodeTable : OpcodeTable[k][2] = token.variant][1]

\* EExprToken::opcode_value
opcode_value(token) ==
    IF token.variant = "Unknown" THEN token.val
    ELSE OpcodeTable[CHOOSE k \in DOMAIN OpcodeTable : OpcodeTable[k][2] = token.variant][1]

\* ---------------------------------------------------------------- the address index
\* The addresses of the objects and properties of a document.
Addresses == {16, 32}

\* The addresses that are looked up: those and one that no document holds.
QueryAddresses == Addresses \cup {48}

\* The path of the k-th object of a document.
PathOf(k) == "/Game/Obj" \o ToString(k)

\* The property lists of k properties.
PropLists(k) == [1..k -> [address : Addresses, name : {"Prop"}]]

\* The objects with k properties: with none, an object that is no struct
\* (get_struct is None) or a struct without properties.
ObjectsWith(k) ==
    {[address |-> a, is_struct |-> TRUE, properties |-> ps] :
        a \in Addresses, ps \in PropLists(k)}
    \cup (IF k = 0
          THEN {[address |-> a, is_struct |-> FALSE, properties |-> <<>>] : a \in Addresses}
          ELSE {})

\* The lists of n objects with at most `budget` properties in all.
RECURSIVE ObjectLists(_, _)
ObjectLists(n, budget) ==
    IF n = 0 THEN {<<>>}
    ELSE UNION {{Append(d, o) : d \in ObjectLists(n - 1, budget - k), o \in ObjectsWith(k)} :
                k \in 0..budget}

\* The document that stores the objects of a list under the paths PathOf(1), ...
JmapOf(list) ==
    [objects |-> [p \in {PathOf(k) : k \in DOMAIN list} |->
                     list[CHOOSE k \in DOMAIN list : PathOf(k) = p]]]

\* The metadata documents of at most `size` objects and properties.
Jmaps(size) == {JmapOf(list) : list \in UNION {ObjectLists(n, size - n) : n \in 0..size}}

\* obj.get_struct(): {} for None.
get_struct(obj) == IF obj.is_struct THEN {obj} ELSE {}

\* AddressIndex::new without the objects that are structs.
RECURSIVE IndexObjects_skip_structs(_, _, _, _)
IndexObjects_skip_structs(doc, order, k, object_index) ==
    IF k > Len(order) THEN object_index
    ELSE IndexObjects_skip_structs(doc, order, k + 1,
             IF get_struct(doc.objects[order[k]]) # {} THEN object_index
             ELSE MapInsert(object_index, doc.objects[order[k]].address, order[k]))

\* AddressIndex::new, "Index objects by address": `order` is the order in which
\* jmap.objects is iterated.
RECURSIVE IndexObjects(_, _, _, _)
IndexObjects(doc, order, k, object_index) ==
    IF k > Len(order) THEN object_index
    ELSE IndexObjects(doc, order, k + 1,
                      MapInsert(object_index, doc.objects[order[k]].address, order[k]))

\* The loop over the properties of a struct that binds every address to position 0.
RECURSIVE IndexStructProperties_position_0(_, _, _, _)
IndexStructProperties_position_0(properties, path, i, property_index) ==
    IF i > Len(properties) THEN property_index
    ELSE IndexStructProperties_position_0(properties, path, i + 1,
             MapInsert(property_index, properties[i].address, <<path, 0>>))

\* AddressIndex::new, the loop over struct_obj.properties.iter().enumerate():
\* prop_idx counts from 0, the position i in the list from 1.
RECURSIVE IndexStructProperties(_, _, _, _)
IndexStructProperties(properties, path, i, property_index) ==
    IF i > Len(properties) THEN property_index
    ELSE IndexStructProperties(properties, path, i + 1,
             MapInsert(property_index, properties[i].address, <<path, i - 1>>))

\* AddressIndex::new, "Index properties by address".
RECURSIVE IndexProperties(_, _, _, _)
IndexProperties(doc, order, k, property_index) ==
    IF k > Len(order) THEN property_index
    ELSE LET struct_obj == get_struct(doc.objects[order[k]])
         IN IndexProperties(doc, order, k + 1,
                IF struct_obj = {} THEN property_index
                ELSE IndexStructProperties(doc.objects[order[k]].properties, order[k], 1,
                                           property_index))

\* AddressIndex::new
AddressIndex_new(doc, order) ==
    [built |-> TRUE,
     object_index |-> IndexObjects(doc, order, 1, EmptyMap),
     property_index |-> IndexProperties(doc, order, 1, EmptyMap)]

\* AddressIndex::resolve_object: {} for None, {ObjectInfo} for Some.
resolve_object(index, doc, address) ==
    IF address \in DOMAIN index.object_index
    THEN LET path == index.object_index[address]
         IN {[path |-> path, object |-> doc.objects[path]]}
    ELSE {}

\* AddressIndex::resolve_property: {} for None, {PropertyInfo} for Some.  The
\* reference &properties[prop_idx] is kept as prop_idx and the property there.
resolve_property(index, doc, address) ==
    IF address \in DOMAIN index.property_index
    THEN LET path == index.property_index[address][1]
             prop_idx == index.property_index[address][2]
             object == doc.objects[path]
         IN {[owner |-> [path |-> path, object |-> object],
              prop_idx |-> prop_idx,
              property |-> object.properties[prop_idx + 1]]}
    ELSE {}

\* ---------------------------------------------------------------- the C++ formatter
AddPath == "/Script/Engine.KismetMathLibrary:Add_IntInt"

NotPath == "/Script/Engine.KismetMathLibrary:Not_PreBool"

\* No FunctionRef.
NoFunc == [by |-> "none", address |-> 0, name |-> ""]

\* An Expr: its ExprKind variant, the address of its PropertyRef, ObjectRef,
\* ClassRef or StructRef, its FunctionRef, and its sub-expressions in order.
Expr(kind, address, func, params) ==
    [kind |-> kind, address |-> address, func |-> func, params |-> params]

\* The metadata document of the formatter runs: two functions of
\* KismetMathLibrary and a class with one property.
FormatterJmap ==
    [objects |->
        (AddPath :> [address |-> 16, is_struct |-> TRUE, properties |-> <<>>]
         @@ NotPath :> [address |-> 17, is_struct |-> TRUE, properties |-> <<>>]
         @@ "/Game/BP.BP_C" :>
                [address |-> 19, is_struct |-> TRUE,
                 properties |-> <<[address |-> 66, name |-> "Health"]>>])]

\* FunctionRef::ByAddress and FunctionRef::ByName
ByAddress(address) == [by |-> "address", address |-> address, name |-> ""]

ByName(name) == [by |-> "name", address |-> 0, name |-> name]

\* The function references: the functions of the document, an address that is
\* not in it (48), and names.
FuncRefs ==
    {ByAddress(a) : a \in {16, 17, 48}} \cup {ByName(n) : n \in {AddPath, NotPath, "Foo"}}

\* Expressions without sub-expressions; 66 is the property of the document, 19
\* its class, 48 is not in it.
Leaves ==
    {Expr(k, 0, NoFunc, <<>>) : k \in {"IntZero", "IntOne", "True"}}
    \cup {Expr("LocalVariable", a, NoFunc, <<>>) : a \in {66, 48}}
    \cup {Expr("ObjectConst", a, NoFunc, <<>>) : a \in {19, 48}}

\* The parameters of the calls: the leaves, a call, and a cast to a class that is
\* not in the document.
Operands ==
    Leaves
    \cup {Expr("CallMath", 0, ByName(NotPath), <<Expr("True", 0, NoFunc, <<>>)>>),
          Expr("DynamicCast", 48, NoFunc, <<Expr("IntZero", 0, NoFunc, <<>>)>>)}

\* The sequences of at most n elements of S.
SeqsUpTo(S, n) == UNION {[1..k -> S] : k \in 0..n}

\* The expressions that are formatted.
Exprs ==
    Leaves
    \cup {Expr("CallMath", 0, f, ps) : f \in FuncRefs, ps \in SeqsUpTo(Operands, MaxParams)}
    \cup {Expr("FinalFunction", 0, f, ps) : f \in FuncRefs, ps \in SeqsUpTo(Leaves, 1)}
    \cup {Expr("DynamicCast", a, NoFunc, <<e>>) : a \in {19, 48}, e \in Leaves}
    \cup {Expr("StructConst", a, NoFunc, ps) : a \in {19, 48}, ps \in SeqsUpTo(Leaves, 1)}

\* The escape character U+001B of an ANSI escape sequence.
ESC == "<ESC>"

\* Display of a ColoredString of the colored crate: the text between the escape
\* sequence of its style and the reset sequence, or the text alone when colours
\* are off.
Paint(c, style, text) ==
    IF c THEN ESC \o "[" \o style \o "m" \o text \o ESC \o "[0m" ELSE text

\* Theme::variable: bright_yellow
Theme_variable(c, text) == Paint(c, "93", text)

\* Theme::function: magenta().bold()
Theme_function(c, text) == Paint(c, "1;35", text)

\* Theme::type_name: bright_cyan
Theme_type_name(c, text) == Paint(c, "96", text)

\* Theme::object_ref: cyan
Theme_object_ref(c, text) == Paint(c, "36", text)

\* Theme::numeric: yellow
Theme_numeric(c, text) == Paint(c, "33", text)

\* Theme::keyword: green
Theme_keyword(c, text) == Paint(c, "32", text)

\* strs.join(sep)
RECURSIVE Join(_, _)
Join(strs, sep) ==
    IF strs = <<>> THEN ""
    ELSE IF Len(strs) = 1 THEN strs[1]
    ELSE strs[1] \o sep \o Join(Tail(strs), sep)

\* The unary operators of try_format_as_operator: path -> the text before the
\* operand.
UnaryOperators ==
    "/Script/Engine.KismetMathLibrary:Not_PreBool" :> "!"
    @@ "/Script/Engine.KismetMathLibrary:NegateFloat" :> "-"
    @@ "/Script/Engine.KismetMathLibrary:NegateInt" :> "-"
    @@ "/Script/Engine.KismetMathLibrary:NegateInt64" :> "-"
\* The binary operators of try_format_as_operator: path -> the text between the
\* operands of "(left op right)".
BinaryOperators ==
    "/Script/Engine.KismetMathLibrary:BooleanAND" :> "&&"
    @@ "/Script/Engine.KismetMathLibrary:BooleanOR" :> "||"
    @@ "/Script/Engine.KismetMathLibrary:BooleanXOR" :> "^"
    @@ "/Script/Engine.KismetMathLibrary:Add_IntInt" :> "+"
    @@ "/Script/Engine.KismetMathLibrary:Subtract_IntInt" :> "-"
    @@ "/Script/Engine.KismetMathLibrary:Multiply_IntInt" :> "*"
    @@ "/Script/Engine.KismetMathLibrary:Divide_IntInt" :> "/"
    @@ "/Script/Engine.KismetMathLibrary:Percent_IntInt" :> "%"
    @@ "/Script/Engine.KismetMathLibrary:Add_FloatFloat" :> "+"
    @@ "/Script/Engine.KismetMathLibrary:Subtract_FloatFloat" :> "-"
    @@ "/Script/Engine.KismetMathLibrary:Multiply_FloatFloat" :> "*"
    @@ "/Script/Engine.KismetMathLibrary:Divide_FloatFloat" :> "/"
    @@ "/Script/Engine.KismetMathLibrary:Add_DoubleDouble" :> "+"
    @@ "/Script/Engine.KismetMathLibrary:Subtract_DoubleDouble" :> "-"
    @@ "/Script/Engine.KismetMathLibrary:Multiply_DoubleDouble" :> "*"
    @@ "/Script/Engine.KismetMathLibrary:Divide_DoubleDouble" :> "/"
    @@ "/Script/Engine.KismetMathLibrary:EqualEqual_IntInt" :> "=="
    @@ "/Script/Engine.KismetMathLibrary:NotEqual_IntInt" :> "!="
    @@ "/Script/Engine.KismetMathLibrary:Greater_IntInt" :> ">"
    @@ "/Script/Engine.KismetMathLibrary:GreaterEqual_IntInt" :> ">="
    @@ "/Script/Engine.KismetMathLibrary:Less_IntInt" :> "<"
    @@ "/Script/Engine.KismetMathLibrary:LessEqual_IntInt" :> "<="
    @@ "/Script/Engine.KismetMathLibrary:EqualEqual_ByteByte" :> "=="
    @@ "/Script/Engine.KismetMathLibrary:NotEqual_ByteByte" :> "!="
    @@ "/Script/Engine.KismetMathLibrary:Greater_ByteByte" :> ">"
    @@ "/Script/Engine.KismetMathLibrary:GreaterEqual_ByteByte" :> ">="
    @@ "/Script/Engine.KismetMathLibrary:Less_ByteByte" :> "<"
    @@ "/Script/Engine.KismetMathLibrary:LessEqual_ByteByte" :> "<="
    @@ "/Script/Engine.KismetMathLibrary:EqualEqual_DoubleDouble" :> "=="
    @@ "/Script/Engine.KismetMathLibrary:NotEqual_DoubleDouble" :> "!="
    @@ "/Script/Engine.KismetMathLibrary:Greater_DoubleDouble" :> ">"
    @@ "/Script/Engine.KismetMathLibrary:GreaterEqual_DoubleDouble" :> ">="
    @@ "/Script/Engine.KismetMathLibrary:Less_DoubleDouble" :> "<"
    @@ "/Script/Engine.KismetMathLibrary:LessEqual_DoubleDouble" :> "<="

\* try_format_as_operator that takes the first two of two or more parameters.
try_format_as_operator_two_or_more(full_path, params) ==
    IF Len(params) = 1
    THEN IF full_path \in DOMAIN UnaryOperators
         THEN {UnaryOperators[full_path] \o params[1]}
         ELSE {}
    ELSE IF Len(params) >= 2
    THEN IF full_path \in DOMAIN BinaryOperators
         THEN {"(" \o params[1] \o " " \o BinaryOperators[full_path] \o " "
                   \o params[2] \o ")"}
         ELSE {}
    ELSE {}

\* CppFormatter::try_format_as_operator: {} for None, {text} for Some.
try_format_as_operator(full_path, params) ==
    IF Len(params) = 1
    THEN IF full_path \in DOMAIN UnaryOperators
         THEN {UnaryOperators[full_path] \o params[1]}
         ELSE {}
    ELSE IF Len(params) = 2
    THEN IF full_path \in DOMAIN BinaryOperators
         THEN {"(" \o params[1] \o " " \o BinaryOperators[full_path] \o " "
                   \o params[2] \o ")"}
         ELSE {}
    ELSE {}

\* format_expr_inline returned text.
Done(text) == [outcome |-> "ok", text |-> text]

\* format_expr_inline panicked: unwrap() on None.
Panicked == [outcome |-> "panic", text |-> ""]

\* CppFormatter::resolve_property
fmt_resolve_property(index, doc, address) ==
    LET p == resolve_property(index, doc, address)
    IN IF p = {} THEN "<err resolving prop>"
       ELSE (CHOOSE x \in p : TRUE).property.name

\* The position of the last '/' of a path; 0 when it has none.
RECURSIVE LastSlash(_, _)
LastSlash(path, k) ==
    IF k = 0 THEN 0
    ELSE IF SubSeq(path, k, k) = "/" THEN k
    ELSE LastSlash(path, k - 1)

\* path.rsplit('/').next().unwrap_or(path)
LastSegment(path) == SubSeq(path, LastSlash(path, Len(path)) + 1, Len(path))

\* CppFormatter::resolve_object, and resolve_class and resolve_struct that call
\* it: the last segment of the path, or a panic of unwrap() on None.
fmt_resolve_object(index, doc, address) ==
    LET obj_info == resolve_object(index, doc, address)
    IN IF obj_info = {} THEN Panicked
       ELSE Done(LastSegment((CHOOSE x \in obj_info : TRUE).path))

\* CppFormatter::resolve_function
fmt_resolve_function(index, doc, func) ==
    IF func.by = "name" THEN func.name
    ELSE LET o == resolve_object(index, doc, func.address)
         IN IF o = {} THEN "<err resolving func>" ELSE (CHOOSE x \in o : TRUE).path

\* CppFormatter::format_expr_inline(expr, &FormatContext::This) for the variants
\* of Exprs, and the map over the sub-expressions that collects their texts.
RECURSIVE format_expr_inline(_, _, _, _)
RECURSIVE format_each(_, _, _, _, _, _)
format_each(c, index, doc, es, k, strs) ==
    IF k > Len(es) THEN [outcome |-> "ok", strs |-> strs]
    ELSE LET r == format_expr_inline(c, index, doc, es[k])
         IN IF r.outcome = "panic" THEN [outcome |-> "panic", strs |-> strs]
            ELSE format_each(c, index, doc, es, k + 1, Append(strs, r.text))

format_expr_inline(c, index, doc, e) ==
    LET param_strs == format_each(c, index, doc, e.params, 1, <<>>)
    IN CASE e.kind = "LocalVariable" ->
              Done(Theme_variable(c, fmt_resolve_property(index, doc, e.address)))
         [] e.kind = "IntZero" -> Done(Theme_numeric(c, "0"))
         [] e.kind = "IntOne" -> Done(Theme_numeric(c, "1"))
         [] e.kind = "True" -> Done(Theme_keyword(c, "true"))
         [] e.kind = "FinalFunction" ->
              LET func_name == fmt_resolve_function(index, doc, e.func)
              IN IF param_strs.outcome = "panic" THEN Panicked
                 ELSE Done(Theme_function(c, func_name) \o "("
                           \o Join(param_strs.strs, ", ") \o ")")
         [] e.kind = "CallMath" ->
              LET target == resolve_object(index, doc, e.func.address)
              IN IF e.func.by = "address" /\ target = {} THEN Panicked
                 ELSE IF param_strs.outcome = "panic" THEN Panicked
                 ELSE LET full_path == IF e.func.by = "address"
                                       THEN (CHOOSE x \in target : TRUE).path
                                       ELSE e.func.name
                          operator_form == try_format_as_operator(full_path, param_strs.strs)
                          func_name == fmt_resolve_function(index, doc, e.func)
                      IN IF operator_form # {} THEN Done(CHOOSE t \in operator_form : TRUE)
                         ELSE Done(Theme_function(c, func_name) \o "("
                                   \o Join(param_strs.strs, ", ") \o ")")
         [] e.kind = "DynamicCast" ->
              LET class_name == fmt_resolve_object(index, doc, e.address)
              IN IF class_name.outcome = "panic" THEN Panicked
                 ELSE IF param_strs.outcome = "panic" THEN Panicked
                 ELSE Done("Cast<" \o Theme_type_name(c, class_name.text) \o ">("
                           \o param_strs.strs[1] \o ")")
         [] e.kind = "StructConst" ->
              LET struct_name == fmt_resolve_object(index, doc, e.address)
              IN IF struct_name.outcome = "panic" THEN Panicked
                 ELSE IF param_strs.outcome = "panic" THEN Panicked
                 ELSE Done(Theme_type_name(c, struct_name.text) \o "{ "
                           \o Join(param_strs.strs, ", ") \o " }")
         [] e.kind = "ObjectConst" ->
              LET o == resolve_object(index, doc, e.address)
              IN Done(Theme_object_ref(c, IF o = {} THEN "<err resolving object>"
                                          ELSE (CHOOSE x \in o : TRUE).path))

\* ---------------------------------------------------------------- statements
\* The expressions of the statements: a constant, a variable, and a cast to a
\* class that is not in the document, on which format_expr_inline panics.
StmtOperands ==
    {Expr("IntZero", 0, NoFunc, <<>>),
     Expr("LocalVariable", 66, NoFunc, <<>>),
     Expr("DynamicCast", 48, NoFunc, <<Expr("IntZero", 0, NoFunc, <<>>)>>)}

\* The cases of the statements, each <<case_value, result>>: one that formats,
\* one whose case_value panics, one whose result panics.
StmtCases ==
    {<<Expr("IntZero", 0, NoFunc, <<>>), Expr("LocalVariable", 66, NoFunc, <<>>)>>,
     <<Expr("DynamicCast", 48, NoFunc, <<Expr("IntZero", 0, NoFunc, <<>>)>>),
       Expr("IntZero", 0, NoFunc, <<>>)>>,
     <<Expr("IntZero", 0, NoFunc, <<>>),
       Expr("DynamicCast", 48, NoFunc, <<Expr("IntZero", 0, NoFunc, <<>>)>>)>>}

\* ExprKind::SwitchValue { index, cases, default, .. }: the sub-expressions are
\* index, default, and then case_value and result of each case in order.
SwitchValue(index, cases, default) ==
    Expr("SwitchValue", 0, NoFunc,
         <<index, default>>
         \o [k \in 1..(2 * Len(cases)) |-> cases[(k + 1) \div 2][((k + 1) % 2) + 1]])

\* The number of cases of a SwitchValue.
NumCases(e) == (Len(e.params) - 2) \div 2

\* The SwitchValue statements, of 0 to MaxCases cases.
SwitchValues ==
    {SwitchValue(i, cs, d) :
        i \in StmtOperands, d \in StmtOperands,
        cs \in UNION {[1..n -> StmtCases] : n \in 0..MaxCases}}

\* The statements: SwitchValue, Jump, Return, and expression statements.
Statements ==
    SwitchValues
    \cup {Expr("Jump", 0, NoFunc, <<>>)}
    \cup {Expr("Return", 0, NoFunc, <<o>>) : o \in StmtOperands}
    \cup StmtOperands

\* The statements of the slices given to format.
ScriptStatements ==
    {Expr("Jump", 0, NoFunc, <<>>),
     Expr("Return", 0, NoFunc, <<Expr("IntZero", 0, NoFunc, <<>>)>>),
     SwitchValue(Expr("IntZero", 0, NoFunc, <<>>),
                 <<<<Expr("IntZero", 0, NoFunc, <<>>),
                     Expr("LocalVariable", 66, NoFunc, <<>>)>>>>,
                 Expr("IntZero", 0, NoFunc, <<>>)),
     SwitchValue(Expr("IntZero", 0, NoFunc, <<>>), <<>>,
                 Expr("DynamicCast", 48, NoFunc, <<Expr("IntZero", 0, NoFunc, <<>>)>>))}

\* The levels given to set_indent_level.
IndentLevels == 0..MaxIndent

\* CppFormatter::add_indent
add_indent(level) == level + 1

\* drop_indent without its test of the level.
drop_indent_unchecked(level) == level - 1

\* CppFormatter::drop_indent
drop_indent(level) == IF level > 0 THEN level - 1 ELSE level

\* A call returned with the indent level `level`.
Returned(level) == [outcome |-> "ok", level |-> level]

\* format_expr_inline panicked in a call, with the indent level `level`.
Aborted(level) == [outcome |-> "panic", level |-> level]

\* format_statement, SwitchValue: the loop "for case in cases" from case k on.
RECURSIVE format_cases(_, _, _, _, _, _)
format_cases(c, index, doc, level, e, k) ==
    IF k > NumCases(e) THEN Returned(level)
    ELSE LET case_val == format_expr_inline(c, index, doc, e.params[2 * k + 1])
             inner == add_indent(level)
             result == format_expr_inline(c, index, doc, e.params[2 * k + 2])
         IN IF case_val.outcome = "panic" THEN Aborted(level)
            ELSE IF result.outcome = "panic" THEN Aborted(inner)
            ELSE format_cases(c, index, doc, drop_indent(inner), e, k + 1)

\* CppFormatter::format_statement: the indent level it returns with, or the
\* panic of a format_expr_inline it calls.  Its lines go to stdout.
format_statement(c, index, doc, level, e) ==
    CASE e.kind = "SwitchValue" ->
           LET index_expr == format_expr_inline(c, index, doc, e.params[1])
               cases == format_cases(c, index, doc, add_indent(level), e, 1)
               inner == add_indent(cases.level)
               default_result == format_expr_inline(c, index, doc, e.params[2])
           IN IF index_expr.outcome = "panic" THEN Aborted(level)
              ELSE IF cases.outcome = "panic" THEN cases
              ELSE IF default_result.outcome = "panic" THEN Aborted(inner)
              ELSE Returned(drop_indent(drop_indent(inner)))
      [] e.kind = "Jump" -> Returned(level)
      [] e.kind = "Return" ->
           IF format_expr_inline(c, index, doc, e.params[1]).outcome = "panic"
           THEN Aborted(level)
           ELSE Returned(level)
      [] OTHER ->
           IF format_expr_inline(c, index, doc, e).outcome = "panic"
           THEN Aborted(level)
           ELSE Returned(level)

\* CppFormatter::format: the loop "for expr in expressions" from expression k on.
RECURSIVE format(_, _, _, _, _, _)
format(c, index, doc, level, expressions, k) ==
    IF k > Len(expressions) THEN Returned(level)
    ELSE LET statement == format_statement(c, index, doc, add_indent(level),
                                           expressions[k])
         IN IF statement.outcome = "panic" THEN statement
            ELSE format(c, index, doc, drop_indent(statement.level), expressions, k + 1)

\* ---------------------------------------------------------------- actions
\* DominatorTree::compute up to the fix-point loop (steps 1 and 2).
DomStart ==
    /\ pc = "dom_start"
    /\ IF IsEmpty(cfg)
       THEN /\ idom' = EmptyMap
            /\ dom_children' = EmptyMap
            /\ rpo' = <<>>
            /\ changed' = FALSE
            /\ pc' = "loops"
       ELSE /\ rpo' = reverse_postorder(cfg, cfg.entry_block)
            /\ idom' = MapInsert(EmptyMap, cfg.entry_block, cfg.entry_block)
            /\ changed' = TRUE
            /\ dom_children' = EmptyMap
            /\ pc' = "dom_loop"
    /\ dom_seen' = {}
    /\ UNCHANGED <<cfg, loops>>
    /\ UNCHANGED pdVars
    /\ UNCHANGED decodeVars

\* One iteration of "while changed" (step 3); on exit, step 4 builds the children.
DomPass ==
    /\ pc = "dom_loop"
    /\ IF changed
       THEN LET st == DomSweep(cfg, rpo, RpoIndex(rpo), 2,
                               [idom |-> idom, changed |-> FALSE])
            IN /\ idom' = st.idom
               /\ changed' = st.changed
               /\ dom_seen' = dom_seen \cup {idom}
               /\ UNCHANGED <<dom_children, pc>>
       ELSE /\ dom_children' = ChildrenOf(idom)
            /\ pc' = "loops"
            /\ UNCHANGED <<idom, changed, dom_seen>>
    /\ UNCHANGED <<cfg, rpo, loops>>
    /\ UNCHANGED pdVars
    /\ UNCHANGED decodeVars

\* LoopInfo::analyze(&cfg, &dom_tree)
LoopAnalyze ==
    /\ pc = "loops"
    /\ loops' = analyze(cfg, idom)
    /\ pc' = "analyzed"
    /\ UNCHANGED cfg
    /\ UNCHANGED domVars
    /\ UNCHANGED pdVars
    /\ UNCHANGED decodeVars

\* PostDominatorTree::compute up to the fix-point loop (steps 1 to 4).
PdStart ==
    /\ pc = "pdom_start"
    /\ IF IsEmpty(cfg)
       THEN /\ exit_blocks' = {}
            /\ pd_rpo' = <<>>
            /\ ipdom' = EmptyMap
            /\ pd_changed' = FALSE
            /\ pc' = "pd_done"
       ELSE /\ exit_blocks' = ExitBlocksOf(cfg)
            /\ \E order \in IterationOrders(ExitBlocksOf(cfg)) :
                  pd_rpo' = reverse_postorder_from_exits(cfg, order)
            /\ ipdom' = InitialIpdom(ExitBlocksOf(cfg))
            /\ pd_changed' = TRUE
            /\ pc' = "pd_loop"
    /\ UNCHANGED <<cfg, loops, pd_i, pd_j, b1, b2, pd_children>>
    /\ UNCHANGED domVars
    /\ UNCHANGED decodeVars

\* The pass goes on from st to its next call of intersect or to its end.
PdResume(st) ==
    LET r == PdSweep(cfg, exit_blocks, pd_rpo, st)
    IN /\ pc' = r.pc
       /\ ipdom' = r.ipdom
       /\ pd_changed' = r.changed
       /\ pd_i' = r.i
       /\ pd_j' = r.j
       /\ b1' = r.b1
       /\ b2' = r.b2

\* One iteration of "while changed" (step 5) up to its first call of intersect;
\* on exit of the loop, step 6 builds the children.
PdPass ==
    /\ pc = "pd_loop"
    /\ IF pd_changed
       THEN /\ PdResume([ipdom |-> ipdom, changed |-> FALSE, i |-> 1, k |-> 0, new |-> 0])
            /\ UNCHANGED pd_children
       ELSE /\ pd_children' = PdChildrenOf(ipdom)
            /\ pc' = "pd_done"
            /\ UNCHANGED <<ipdom, pd_changed, pd_i, pd_j, b1, b2>>
    /\ UNCHANGED <<cfg, loops, exit_blocks, pd_rpo>>
    /\ UNCHANGED domVars
    /\ UNCHANGED decodeVars

\* One step of PostDominatorTree::intersect(b1, b2): the test of a while loop and,
\* when it holds, one cursor moved up the ipdom chain; on return the successor
\* loop goes on with the result as new_ipdom_id.
PdIntersectStep ==
    /\ pc = "pd_intersect"
    /\ LET r == intersect_step(ipdom, RpoIndex(pd_rpo), b1, b2)
       IN IF r.ret
          THEN PdResume([ipdom |-> ipdom, changed |-> pd_changed,
                         i |-> pd_i, k |-> pd_j + 1, new |-> r.b1])
          ELSE /\ b1' = r.b1
               /\ b2' = r.b2
               /\ UNCHANGED <<pc, ipdom, pd_changed, pd_i, pd_j>>
    /\ UNCHANGED <<cfg, loops, exit_blocks, pd_rpo, pd_children>>
    /\ UNCHANGED domVars
    /\ UNCHANGED decodeVars

\* No conversion chain has started.
NoStart == [kind |-> "none", byte |-> 0, token |-> [variant |-> "Unknown", val |-> 0]]

\* AddressIndex::new has not run.
NotBuilt == [built |-> FALSE, object_index |-> EmptyMap, property_index |-> EmptyMap]

\* No resolve call has been made.
NoLookup == [fn |-> "none", address |-> 0, result |-> {}]

\* No expression.
NoExpr == Expr("none", 0, NoFunc, <<>>)

\* format_expr_inline has not run.
NoOutput == [outcome |-> "none", text |-> ""]

\* No read has been made.
NoRead == [op |-> "none", from |-> 0, outcome |-> "ok", value |-> 0]

\* No script is being read.
ReaderIdle ==
    /\ script = <<>>
    /\ names = EmptyMap
    /\ offset = 0
    /\ rd = NoRead

\* No opcode is being converted.
OpcodeIdle ==
    /\ op_start = NoStart
    /\ op_token = {}
    /\ op_byte = {}

\* No metadata document is loaded.
IndexIdle ==
    /\ jmap = [objects |-> EmptyMap]
    /\ aidx = NotBuilt
    /\ lookup = NoLookup

\* No call of the formatter has been made.
NoCall == [op |-> "none", entry_level |-> 0, outcome |-> "ok"]

\* No expression is being formatted.
FmtIdle ==
    /\ expr = NoExpr
    /\ colorize = FALSE
    /\ fmt_out = NoOutput
    /\ indent_level = 0
    /\ fmt_call = NoCall

\* Nothing is being decoded.
DecodeIdle ==
    /\ ReaderIdle
    /\ OpcodeIdle
    /\ IndexIdle
    /\ FmtIdle

\* Nothing has been computed by the graph analyses.
AnalysesBlank ==
    /\ rpo = <<>>
    /\ idom = EmptyMap
    /\ changed = FALSE
    /\ dom_seen = {}
    /\ dom_children = EmptyMap
    /\ loops = <<>>
    /\ exit_blocks = {}
    /\ pd_rpo = <<>>
    /\ ipdom = EmptyMap
    /\ pd_changed = FALSE
    /\ pd_i = 0
    /\ pd_j = 0
    /\ b1 = 0
    /\ b2 = 0
    /\ pd_children = EmptyMap

\* The analyses have not started: an input graph, and nothing computed.
Blank ==
    /\ \E n \in 0..MaxBlocks : \E el \in EdgeLists(n, MaxSize - n) :
          cfg = ControlFlowGraph(n, el)
    /\ AnalysesBlank
    /\ DecodeIdle

\* No graph is under analysis.
NoGraph ==
    /\ cfg = ControlFlowGraph(0, <<>>)
    /\ AnalysesBlank

\* DominatorTree::compute(&cfg), then LoopInfo::analyze(&cfg, &dom_tree).
Init == Blank /\ pc = "dom_start"

Next ==
    \/ DomStart
    \/ DomPass
    \/ LoopAnalyze

Spec == Init /\ [][Next]_vars

\* PostDominatorTree::compute(&cfg).
PdInit == Blank /\ pc = "pdom_start"

PdNext ==
    \/ PdStart
    \/ PdPass
    \/ PdIntersectStep

PdSpec == PdInit /\ [][PdNext]_vars

\* A call of a read method with the caller's cursor: the cursor and the outcome
\* are the method's.  A panic ends the process.
Read(op, r) ==
    /\ rd.outcome # "panic"
    /\ rd' = [op |-> op, from |-> offset, outcome |-> r.outcome, value |-> r.value]
    /\ offset' = r.offset
    /\ UNCHANGED <<script, names>>
    /\ UNCHANGED notReaderVars

ReadByte ==
    /\ pc = "decode"
    /\ Read("read_byte", read_byte(script, offset))

ReadWord ==
    /\ pc = "decode"
    /\ Read("read_word", read_word(script, offset))

ReadInt ==
    /\ pc = "decode"
    /\ Read("read_int", read_int(script, offset))

ReadQword ==
    /\ pc = "decode"
    /\ Read("read_qword", read_qword(script, offset))

ReadFloat ==
    /\ pc = "decode"
    /\ Read("read_float", read_float(script, offset))

ReadSkipCount ==
    /\ pc = "decode"
    /\ Read("read_skip_count", read_skip_count(script, offset))

ReadString8 ==
    /\ pc = "decode"
    /\ Read("read_string8", read_string8(script, offset))

ReadString16 ==
    /\ pc = "decode"
    /\ Read("read_string16", read_string16(script, offset))

ReadName ==
    /\ pc = "decode"
    /\ Read("read_name", read_name(script, names, offset))

ReadAddress ==
    /\ pc = "decode"
    /\ Read("read_address", read_address(script, offset))

\* ScriptReader::new over a script and a name table; the caller's cursor at 0.
ReaderInit ==
    /\ NoGraph
    /\ pc = "decode"
    /\ script \in Scripts
    /\ names \in NameTables
    /\ offset = 0
    /\ rd = NoRead
    /\ OpcodeIdle
    /\ IndexIdle
    /\ FmtIdle

ReaderNext ==
    \/ ReadByte
    \/ ReadWord
    \/ ReadInt
    \/ ReadQword
    \/ ReadFloat
    \/ ReadSkipCount
    \/ ReadString8
    \/ ReadString16
    \/ ReadName
    \/ ReadAddress

ReaderSpec == ReaderInit /\ [][ReaderNext]_vars

\* EExprToken::from(b), for the byte the chain started from or the byte that
\* opcode_value returned.
FromByte ==
    /\ pc = "opcodes"
    /\ op_token = {}
    /\ \/ /\ op_start.kind = "byte"
          /\ op_token' = {from_u8(op_start.byte)}
       \/ /\ op_start.kind = "token"
          /\ \E b \in op_byte : op_token' = {from_u8(b)}
    /\ UNCHANGED <<op_start, op_byte>>
    /\ UNCHANGED notOpcodeVars

\* token.opcode_value(), for the token the chain started from or the token that
\* from returned.
OpcodeValue ==
    /\ pc = "opcodes"
    /\ op_byte = {}
    /\ \/ /\ op_start.kind = "token"
          /\ op_byte' = {opcode_value(op_start.token)}
       \/ /\ op_start.kind = "byte"
          /\ \E t \in op_token : op_byte' = {opcode_value(t)}
    /\ UNCHANGED <<op_start, op_token>>
    /\ UNCHANGED notOpcodeVars

\* A conversion chain starts from any byte or from any named opcode.
OpcodeInit ==
    /\ NoGraph
    /\ pc = "opcodes"
    /\ ReaderIdle
    /\ IndexIdle
    /\ FmtIdle
    /\ \/ \E b \in U8 : op_start = [kind |-> "byte", byte |-> b, token |-> Unknown(0)]
       \/ \E k \in DOMAIN OpcodeTable :
             op_start = [kind |-> "token", byte |-> 0, token |-> Named(OpcodeTable[k][2])]
    /\ op_token = {}
    /\ op_byte = {}

OpcodeNext ==
    \/ FromByte
    \/ OpcodeValue

OpcodeSpec == OpcodeInit /\ [][OpcodeNext]_vars

\* AddressIndex::new(&jmap): jmap.objects is iterated in some order, the same in
\* both loops.
IndexNew ==
    /\ pc \in {"index", "format"}
    /\ ~aidx.built
    /\ \E order \in IterationOrders(DOMAIN jmap.objects) :
          aidx' = AddressIndex_new(jmap, order)
    /\ UNCHANGED <<jmap, lookup>>
    /\ UNCHANGED notIndexVars

\* address_index.resolve_object(address)
ResolveObject ==
    /\ pc = "index"
    /\ aidx.built
    /\ \E address \in QueryAddresses :
          lookup' = [fn |-> "resolve_object", address |-> address,
                     result |-> resolve_object(aidx, jmap, address)]
    /\ UNCHANGED <<jmap, aidx>>
    /\ UNCHANGED notIndexVars

\* address_index.resolve_property(address)
ResolveProperty ==
    /\ pc = "index"
    /\ aidx.built
    /\ \E address \in QueryAddresses :
          lookup' = [fn |-> "resolve_property", address |-> address,
                     result |-> resolve_property(aidx, jmap, address)]
    /\ UNCHANGED <<jmap, aidx>>
    /\ UNCHANGED notIndexVars

\* A metadata document has been loaded.
IndexInit ==
    /\ NoGraph
    /\ pc = "index"
    /\ ReaderIdle
    /\ OpcodeIdle
    /\ FmtIdle
    /\ jmap \in Jmaps(MaxDocSize)
    /\ aidx = NotBuilt
    /\ lookup = NoLookup

IndexNext ==
    \/ IndexNew
    \/ ResolveObject
    \/ ResolveProperty

IndexSpec == IndexInit /\ [][IndexNext]_vars

\* formatter.format_expr_inline(&expr, &FormatContext::This)
FormatExprInline ==
    /\ pc = "format"
    /\ aidx.built
    /\ fmt_out.outcome = "none"
    /\ fmt_out' = format_expr_inline(colorize, aidx, jmap, expr)
    /\ UNCHANGED <<expr, colorize, indent_level, fmt_call>>
    /\ UNCHANGED notFmtVars

\* The document is loaded and an expression has been decoded; colours are on or
\* off as the environment sets them.
FmtInit ==
    /\ NoGraph
    /\ pc = "format"
    /\ ReaderIdle
    /\ OpcodeIdle
    /\ jmap = FormatterJmap
    /\ aidx = NotBuilt
    /\ lookup = NoLookup
    /\ expr \in Exprs
    /\ colorize \in BOOLEAN
    /\ fmt_out = NoOutput
    /\ indent_level = 0
    /\ fmt_call = NoCall

FmtNext ==
    \/ IndexNew
    \/ FormatExprInline

FmtSpec == FmtInit /\ [][FmtNext]_vars

\* A call of a method that uses indent_level: what it leaves in the formatter.
IndentCall(op, r) ==
    /\ fmt_call.outcome # "panic"
    /\ fmt_call' = [op |-> op, entry_level |-> indent_level, outcome |-> r.outcome]
    /\ indent_level' = r.level
    /\ UNCHANGED <<colorize, fmt_out>>
    /\ UNCHANGED notFmtVars

\* formatter.set_indent_level(level)
SetIndentLevel ==
    /\ pc = "statements"
    /\ \E level \in IndentLevels : IndentCall("set_indent_level", Returned(level))
    /\ UNCHANGED expr

\* self.add_indent()
AddIndent ==
    /\ pc = "statements"
    /\ indent_level < MaxIndent
    /\ IndentCall("add_indent", Returned(add_indent(indent_level)))
    /\ UNCHANGED expr

\* self.drop_indent()
DropIndent ==
    /\ pc = "statements"
    /\ IndentCall("drop_indent", Returned(drop_indent(indent_level)))
    /\ UNCHANGED expr

\* formatter.format_statement(stmt)
FormatStatement ==
    /\ pc = "statements"
    /\ \E stmt \in Statements :
          /\ expr' = stmt
          /\ IndentCall("format_statement",
                        format_statement(colorize, aidx, jmap, indent_level, stmt))

\* formatter.format(&expressions); the slice is kept as one expression.
Format ==
    /\ pc = "statements"
    /\ \E expressions \in SeqsUpTo(ScriptStatements, 2) :
          /\ expr' = Expr("Script", 0, NoFunc, expressions)
          /\ IndentCall("format",
                        format(colorize, aidx, jmap, indent_level, expressions, 1))

\* CppFormatter::new(&address_index, referenced_offsets) over the index of the
\* loaded document.
IndentInit ==
    /\ NoGraph
    /\ pc = "statements"
    /\ ReaderIdle
    /\ OpcodeIdle
    /\ jmap = FormatterJmap
    /\ aidx \in {AddressIndex_new(FormatterJmap, order) :
                    order \in IterationOrders(DOMAIN FormatterJmap.objects)}
    /\ lookup = NoLookup
    /\ expr = NoExpr
    /\ colorize \in BOOLEAN
    /\ fmt_out = NoOutput
    /\ indent_level = 0
    /\ fmt_call = NoCall

IndentNext ==
    \/ SetIndentLevel
    \/ AddIndent
    \/ DropIndent
    \/ FormatStatement
    \/ Format

IndentSpec == IndentInit /\ [][IndentNext]_vars

\* ---------------------------------------------------------------- properties
\* The blocks of the graph.
Blocks == DOMAIN cfg.blocks

\* The successor edges of the graph, as a set of pairs.
Edges == {e \in Blocks \X Blocks : e[2] \in Range(cfg.blocks[e[1]].successors)}

\* The blocks reached from the blocks of `from` by paths of successor edges none
\* of whose blocks (end points included) is in `avoid`.
RECURSIVE ReachAvoiding(_, _)
ReachAvoiding(from, avoid) ==
    LET start == from \ avoid
        more == {e[2] : e \in {e \in Edges : e[1] \in start}} \ avoid
    IN IF more \subseteq start THEN start ELSE ReachAvoiding(start \cup more, avoid)

\* The blocks reachable from the entry block.
Reachable == IF IsEmpty(cfg) THEN {} ELSE ReachAvoiding({cfg.entry_block}, {})

\* DominatorTree::compute has returned.
DomDone == pc \in {"loops", "analyzed"}

\* C1: for every block b reachable from the entry and every block d, dominates(d, b)
\* is true exactly when every path from the entry to b passes through d.
C1_DominatesIffAllPaths ==
    DomDone =>
        \A b \in Reachable : \A d \in Blocks :
            dominates(idom, d, b) <=> (b \notin ReachAvoiding({cfg.entry_block}, {d}))

\* A reachable block with two predecessors is dominated by a block that is neither
\* the block nor the entry.
C1_Witness ==
    /\ DomDone
    /\ \E b \in Reachable : \E d \in Blocks \ {b, cfg.entry_block} :
          /\ dominates(idom, d, b)
          /\ Cardinality({e \in Edges : e[2] = b}) >= 2

\* LoopInfo::analyze has returned.
LoopsDone == pc = "analyzed"

\* PostDominatorTree::compute has returned.
PdDone == pc = "pd_done"

\* C2: PostDominatorTree::compute terminates.  compute is deterministic, so it
\* terminates exactly when it never comes back to a state it was in; here: no step
\* of intersect leaves the cursors, the only state the loop changes, as they were.
C2_PostDomComputeTerminates ==
    pc = "pd_intersect" =>
        LET r == intersect_step(ipdom, RpoIndex(pd_rpo), b1, b2)
        IN r.ret \/ <<r.b1, r.b2>> # <<b1, b2>>

\* The blocks x from which `target` is reached by a path none of whose blocks is h.
ReachesAvoiding(target, h) == {x \in Blocks : target \in ReachAvoiding({x}, {h})}

\* The back edges by definition: the edges (b, h) where h dominates b.
BackEdges == {e \in Edges : dominates(idom, e[2], e[1])}

\* C3: the header of every loop dominates every block of the loop.
C3_HeaderDominatesLoop ==
    LoopsDone =>
        \A k \in DOMAIN loops : \A x \in loops[k].blocks :
            dominates(idom, loops[k].header, x)

\* What a back edge (b, h) contributes to the loop of h, by C4.
NaturalLoopOf(b, h) == IF b = h THEN {h} ELSE {h} \cup ReachesAvoiding(b, h)

\* C4: the blocks of the loop with header h are h and, for each back edge (b, h),
\* the blocks from which b is reachable without passing through h; a back edge
\* (h, h) contributes h alone.
C4_NaturalLoopBlocks ==
    LoopsDone =>
        \A k \in DOMAIN loops :
            loops[k].blocks =
                {loops[k].header} \cup
                UNION {NaturalLoopOf(e[1], e[2]) :
                          e \in {e \in BackEdges : e[2] = loops[k].header}}

\* C5: immediate_common_post_dominator is symmetric in its arguments.
C5_IcpdSymmetric ==
    PdDone =>
        \A a \in Blocks : \A b \in Blocks :
            immediate_common_post_dominator(ipdom, a, b) =
                immediate_common_post_dominator(ipdom, b, a)

\* A computed tree where one block post-dominates another, and where two blocks
\* neither of which post-dominates the other have a common post-dominator.
C5_Witness ==
    /\ PdDone
    /\ \E a \in Blocks : \E b \in Blocks \ {a} :
          /\ post_dominates(ipdom, a, b)
          /\ immediate_common_post_dominator(ipdom, a, b) = {a}
          /\ immediate_common_post_dominator(ipdom, b, a) = {a}
    /\ \E a \in Blocks : \E b \in Blocks \ {a} :
          /\ ~post_dominates(ipdom, a, b)
          /\ ~post_dominates(ipdom, b, a)
          /\ immediate_common_post_dominator(ipdom, a, b) # {}

\* The CFG of two blocks where block 0 ends in Goto(block 1).
GotoCfg == ControlFlowGraph(2, <<<<0, 1>>>>)

\* C6: the entry dominates every block reachable from it; in the two-block CFG
\* block 0 -> block 1, block 0 dominates block 1.
C6_EntryDominatesReachable ==
    DomDone =>
        /\ \A b \in Reachable : dominates(idom, cfg.entry_block, b)
        /\ cfg = GotoCfg => dominates(idom, 0, 1)

\* The dominator tree of the two-block CFG, where block 0 dominates block 1.
C6_Witness == DomDone /\ cfg = GotoCfg /\ dominates(idom, 0, 1)

\* C7: dominates is transitive.
C7_DominatesTransitive ==
    DomDone =>
        \A a \in Blocks : \A b \in Blocks : \A c \in Blocks :
            dominates(idom, a, b) /\ dominates(idom, b, c) => dominates(idom, a, c)

\* A chain of three distinct blocks, each dominating the next.
C7_Witness ==
    /\ DomDone
    /\ \E a \in Blocks : \E b \in Blocks \ {a} : \E c \in Blocks \ {a, b} :
          dominates(idom, a, b) /\ dominates(idom, b, c) /\ dominates(idom, a, c)

\* C8: for a block y that reaches an exit block, post_dominates(x, y) is true
\* exactly when every path from y to an exit block passes through x.
C8_PostDominatesIffAllPaths ==
    PdDone =>
        \A y \in {y \in Blocks : ReachAvoiding({y}, {}) \cap exit_blocks # {}} :
            \A x \in Blocks :
                post_dominates(ipdom, x, y) <=>
                    (ReachAvoiding({y}, {x}) \cap exit_blocks = {})

\* A block with two different successors, both on a path to an exit, that another
\* block post-dominates.
C8_Witness ==
    /\ PdDone
    /\ \E y \in Blocks : \E x \in Blocks \ {y} :
          /\ post_dominates(ipdom, x, y)
          /\ Cardinality(Range(cfg.blocks[y].successors) \cap DOMAIN ipdom) >= 2

\* The back edges stored in loop k.
StoredBackEdges(k) == Range(loops[k].back_edges)

\* The CFG of a while loop: header 0 -> {body 1, return 2}, body 1 -> header 0.
WhileCfg == ControlFlowGraph(3, <<<<0, 1>>, <<0, 2>>, <<1, 0>>>>)

\* C9: the stored back edges are the edges (b, h) where h dominates b, each in the
\* loop whose header is h; no two loops have the same header; the while loop has
\* the one back edge (body, header) and the one loop {header, body}.
C9_BackEdgesExact ==
    LoopsDone =>
        /\ UNION {StoredBackEdges(k) : k \in DOMAIN loops} = BackEdges
        /\ \A k \in DOMAIN loops : \A e \in StoredBackEdges(k) : e[2] = loops[k].header
        /\ \A k \in DOMAIN loops : \A m \in DOMAIN loops :
              loops[k].header = loops[m].header => k = m
        /\ cfg = WhileCfg =>
              /\ Len(loops) = 1
              /\ loops[1].back_edges = <<<<1, 0>>>>
              /\ loops[1].blocks = {0, 1}

\* The loops of the while-loop CFG.
C9_Witness ==
    /\ LoopsDone
    /\ cfg = WhileCfg
    /\ Len(loops) = 1
    /\ loops[1].back_edges = <<<<1, 0>>>>

\* S is a strict subset of T.
StrictSubset(S, T) == S \subseteq T /\ S # T

\* C10: A is the parent of B exactly when B.blocks is a strict subset of A.blocks
\* with no loop strictly between them, and A.children lists the loops whose
\* parent is A.
C10_LoopTree ==
    LoopsDone =>
        \A A \in DOMAIN loops :
            /\ \A B \in DOMAIN loops :
                  (loops[B].parent = {A}) <=>
                      /\ StrictSubset(loops[B].blocks, loops[A].blocks)
                      /\ ~\E C \in DOMAIN loops :
                            /\ StrictSubset(loops[B].blocks, loops[C].blocks)
                            /\ StrictSubset(loops[C].blocks, loops[A].blocks)
            /\ loops[A].children =
                  SelectSeq([i \in 1..Len(loops) |-> i],
                            LAMBDA i : loops[i].parent = {A})

\* The blocks reached from the blocks of `from` along edges that are not back
\* edges.
RECURSIVE ForwardReach(_)
ForwardReach(from) ==
    LET more == {e[2] : e \in {e \in Edges \ BackEdges : e[1] \in from}}
    IN IF more \subseteq from THEN from ELSE ForwardReach(from \cup more)

\* The graph is irreducible: among the blocks reachable from the entry there is a
\* cycle of edges none of which is a back edge.
Irreducible ==
    \E e \in Edges \ BackEdges :
        e[1] \in Reachable /\ e[1] \in ForwardReach({e[2]})

\* C11: DominatorTree::compute and LoopInfo::analyze terminate for every CFG.  Both
\* are deterministic and each step of the pipeline leads to the next, so they
\* terminate exactly when the fix-point loop never starts a pass from an idom map
\* that an earlier pass started from.
C11_DomAndLoopsTerminate ==
    /\ pc \in {"dom_start", "dom_loop", "loops", "analyzed"}
    /\ pc = "dom_loop" /\ changed => idom \notin dom_seen

\* Both analyses have returned for an irreducible graph with an unreachable block,
\* after two passes of the fix-point loop.
C11_Witness ==
    /\ LoopsDone
    /\ Irreducible
    /\ Blocks \ Reachable # {}
    /\ Cardinality(dom_seen) >= 2

\* The reads of fixed width and their number of bytes.
Width ==
    [read_byte |-> 1, read_word |-> 2, read_int |-> 4, read_float |-> 4,
     read_skip_count |-> 4, read_qword |-> 8, read_address |-> 8, read_name |-> 12]

\* The number of bytes a successful read r consumed.
Consumed(r) ==
    IF r.op \in DOMAIN Width THEN Width[r.op] ELSE Len(r.value) + 1

\* C12: every successful read of read_byte, read_word, read_int, read_float,
\* read_skip_count, read_qword, read_address, read_name and read_string8 moves the
\* caller's cursor by the number of bytes consumed (1, 2, 4, 4, 4, 8, 8, 12,
\* length + 1) and changes nothing else.
C12_ReadsAdvanceExactly ==
    [][(rd'.outcome = "ok" /\ rd'.op \in DOMAIN Width \cup {"read_string8"}) =>
          /\ rd'.from = offset
          /\ offset' = offset + Consumed(rd')
          /\ script' = script
          /\ names' = names
          /\ UNCHANGED notReaderVars]_vars

\* A string of two chars or more was read from a cursor that earlier reads moved,
\* and a name was read.
C12_Witness ==
    /\ rd.op = "read_string8"
    /\ rd.outcome = "ok"
    /\ rd.from > 0
    /\ Len(rd.value) >= 2
    /\ offset = rd.from + Len(rd.value) + 1

\* The bytes read r needs reach past the end of the script: more bytes than are
\* left for a read of fixed width, no null terminator from the cursor on for a
\* string.
PastEnd(r) ==
    IF r.op \in DOMAIN Width THEN r.from + Width[r.op] > Len(script)
    ELSE IF r.op = "read_string8"
         THEN \A k \in (r.from + 1)..Len(script) : script[k] # 0
    ELSE \A k \in 0..((Len(script) - r.from) \div 2 - 1) :
             script[r.from + 2 * k + 1] # 0 \/ script[r.from + 2 * k + 2] # 0

\* C13: a read whose bytes would reach past the end of the script fails with the
\* error kind Truncated.
C13_PastEndIsTruncated ==
    (rd.op # "none" /\ PastEnd(rd)) => rd.outcome = "Truncated"

\* The u32 at byte position o of the script, least significant byte first.
FieldAt(o) ==
    <<script[o + 1] + 256 * script[o + 2], script[o + 3] + 256 * script[o + 4]>>

\* The script that holds the name (7, 0xFFFFFFFF, 0xFFFFFFFF).
MaxScript == <<7, 0, 0, 0, 255, 255, 255, 255, 255, 255, 255, 255>>

\* The script that holds the name (7, 42, 3).
FooScript == <<7, 0, 0, 0, 42, 0, 0, 0, 3, 0, 0, 0>>

\* C14: read_name gives names[display_index], or "UnknownName_<display_index>"
\* when the table has no such entry, followed by "_<number - 1>" when number is
\* not 0, whatever comparison_index is; (7, 42, 3) with names[42] = "Foo" gives
\* "Foo_2".
C14_ReadName ==
    (rd.op = "read_name" /\ rd.outcome = "ok") =>
        LET display_index == FieldAt(rd.from + 4)
            number == FieldAt(rd.from + 8)
            base == IF display_index \in DOMAIN names THEN names[display_index]
                    ELSE "UnknownName_" \o U32ToString(display_index)
        IN /\ number = U32(0) => rd.value = base
           /\ number # U32(0) => rd.value = base \o "_" \o U32ToString(U32Pred(number))
           /\ (script = FooScript /\ U32(42) \in DOMAIN names) => rd.value = "Foo_2"
           /\ (display_index = U32(99) /\ number = U32(0)) => rd.value = "UnknownName_99"
           /\ (script = MaxScript /\ U32(42) \notin DOMAIN names) =>
                 rd.value = "UnknownName_4294967295_4294967294"

\* The name (7, 42, 3) was read with names[42] = "Foo".
C14_Witness ==
    /\ rd.op = "read_name"
    /\ rd.outcome = "ok"
    /\ script = FooScript
    /\ U32(42) \in DOMAIN names
    /\ rd.value = "Foo_2"

\* The byte values of the opcode table.
TableValues == {OpcodeTable[k][1] : k \in DOMAIN OpcodeTable}

\* C15: for every byte b, from(b).opcode_value() = b, and from(b) is Unknown(b)
\* exactly when b is absent from the table; for every named opcode v,
\* from(v.opcode_value()) = v; no two entries of the table share a byte value.
C15_OpcodeRoundTrip ==
    /\ op_start.kind = "byte" =>
          /\ \A t \in op_token :
                IF op_start.byte \in TableValues THEN t.variant # "Unknown"
                ELSE t = Unknown(op_start.byte)
          /\ \A b \in op_byte : b = op_start.byte
    /\ op_start.kind = "token" =>
          \A t \in op_token : t = op_start.token
    /\ \A k \in DOMAIN OpcodeTable : \A m \in DOMAIN OpcodeTable :
          OpcodeTable[k][1] = OpcodeTable[m][1] => k = m

\* A byte absent from the table has gone to Unknown and back.
C15_Witness ==
    /\ op_start.kind = "byte"
    /\ op_start.byte \notin TableValues
    /\ op_token = {Unknown(op_start.byte)}
    /\ op_byte = {op_start.byte}

\* The paths of the objects whose address is a.
PathsAt(a) == {p \in DOMAIN jmap.objects : jmap.objects[p].address = a}

\* The ObjectInfo of the object stored at path p.
ObjectInfoOf(p) == [path |-> p, object |-> jmap.objects[p]]

SlotsAt(a) ==
    {sl \in {<<p, i - 1>> : p \in DOMAIN jmap.objects, i \in 1..MaxDocSize} :
        /\ jmap.objects[sl[1]].is_struct
        /\ sl[2] + 1 <= Len(jmap.objects[sl[1]].properties)
        /\ jmap.objects[sl[1]].properties[sl[2] + 1].address = a}

\* The PropertyInfo of the property at a place.
PropertyInfoOf(sl) ==
    [owner |-> ObjectInfoOf(sl[1]),
     prop_idx |-> sl[2],
     property |-> jmap.objects[sl[1]].properties[sl[2] + 1]]

FullPathOf(func) ==
    IF func.by = "name" THEN func.name
    ELSE CHOOSE p \in DOMAIN jmap.objects : jmap.objects[p].address = func.address

\* The formatted parameters of the expression.
FormattedParams == format_each(colorize, aidx, jmap, expr.params, 1, <<>>).strs

\* The text is an ordinary call name(args), the name plain or in its colours.
IsCall(text, name, args) ==
    \/ text = name \o "(" \o Join(args, ", ") \o ")"
    \/ text = ESC \o "[1;35m" \o name \o ESC \o "[0m" \o "(" \o Join(args, ", ") \o ")"

\* C18: a CallMath whose function path is ...:Add_IntInt with exactly two formatted
\* parameters a, b gives "(a + b)", one whose path is ...:Not_PreBool with exactly
\* one parameter a gives "!a"; with any other number of parameters they are
\* given as an ordinary call name(args).
C18_CallMathOperators ==
    (expr.kind = "CallMath" /\ fmt_out.outcome = "ok") =>
        LET path == FullPathOf(expr.func)
            ps == FormattedParams
        IN /\ path = AddPath =>
                 IF Len(ps) = 2 THEN fmt_out.text = "(" \o ps[1] \o " + " \o ps[2] \o ")"
                 ELSE IsCall(fmt_out.text, path, ps)
           /\ path = NotPath =>
                 IF Len(ps) = 1 THEN fmt_out.text = "!" \o ps[1]
                 ELSE IsCall(fmt_out.text, path, ps)

\* Add_IntInt, given by its address, was formatted with the parameters 0 and !true.
C18_Witness ==
    /\ expr.kind = "CallMath"
    /\ expr.func = ByAddress(16)
    /\ fmt_out = Done("(0 + !true)")

\* The reference of the expression is to an address that the index does not hold.
Unregistered(e) ==
    \/ e.kind = "LocalVariable" /\ e.address \notin DOMAIN aidx.property_index
    \/ e.kind \in {"ObjectConst", "DynamicCast", "StructConst"}
       /\ e.address \notin DOMAIN aidx.object_index
    \/ e.kind \in {"CallMath", "FinalFunction"}
       /\ e.func.by = "address"
       /\ e.func.address \notin DOMAIN aidx.object_index

\* C19: when the formatter looks up an address that is not registered in the
\* index (a property, an object constant, a function by address, the class of a
\* cast, the struct of a struct constant, the target of a CallMath), the outcome
\* is an UnresolvedRef error, not an abort.
C19_UnresolvedRefError ==
    (fmt_out.outcome # "none" /\ Unregistered(expr)) => fmt_out.outcome = "UnresolvedRef"

\* The if/else diamond: block 0 branches to the arms 1 and 2, which merge in block 3.
DiamondCfg == ControlFlowGraph(4, <<<<0, 1>>, <<0, 2>>, <<1, 3>>, <<2, 3>>>>)

\* m post-dominates a and b, and every block that post-dominates a and b
\* post-dominates m.
NearestCommonPostDominator(m, a, b) ==
    /\ post_dominates(ipdom, m, a)
    /\ post_dominates(ipdom, m, b)
    /\ \A x \in Blocks :
          (post_dominates(ipdom, x, a) /\ post_dominates(ipdom, x, b)) =>
              post_dominates(ipdom, x, m)

\* C20: whenever immediate_common_post_dominator(a, b) is Some(m), m post-dominates
\* a and b and is the nearest block that does, for all a and b, a = b included;
\* for the two arms of the if/else diamond m is the merge block.
C20_IcpdNearestAll ==
    PdDone =>
        /\ \A a \in Blocks : \A b \in Blocks :
              \A m \in immediate_common_post_dominator(ipdom, a, b) :
                  NearestCommonPostDominator(m, a, b)
        /\ cfg = DiamondCfg => immediate_common_post_dominator(ipdom, 1, 2) = {3}

\* C20 as it holds: for two different blocks a and b the result is the nearest
\* block that post-dominates both; for a = b it is the immediate post-dominator
\* of a; for the two arms of the if/else diamond it is the merge block.
C20_IcpdNearest ==
    PdDone =>
        /\ \A a \in Blocks : \A b \in Blocks \ {a} :
              \A m \in immediate_common_post_dominator(ipdom, a, b) :
                  NearestCommonPostDominator(m, a, b)
        /\ \A a \in Blocks :
              immediate_common_post_dominator(ipdom, a, a) =
                  immediate_post_dominator(ipdom, a)
        /\ cfg = DiamondCfg => immediate_common_post_dominator(ipdom, 1, 2) = {3}

\* The tree of the if/else diamond is computed and the merge block is the result
\* for its two arms, in both orders, and for an arm and itself.
C20_Witness ==
    /\ PdDone
    /\ cfg = DiamondCfg
    /\ immediate_common_post_dominator(ipdom, 1, 2) = {3}
    /\ immediate_common_post_dominator(ipdom, 2, 1) = {3}
    /\ immediate_common_post_dominator(ipdom, 1, 1) = {3}

\* C21: for distinct blocks a, b where one strictly post-dominates the other,
\* immediate_common_post_dominator returns the post-dominating one, in either
\* argument order.
C21_IcpdOfPostDominator ==
    PdDone =>
        \A a \in Blocks : \A b \in Blocks \ {a} :
            strictly_post_dominates(ipdom, a, b) =>
                /\ immediate_common_post_dominator(ipdom, a, b) = {a}
                /\ immediate_common_post_dominator(ipdom, b, a) = {a}

\* A computed tree with a chain of three blocks: a post-dominates c through b, and
\* a is the result for a and c in both orders.
C21_Witness ==
    /\ PdDone
    /\ \E a \in Blocks : \E b \in Blocks \ {a} : \E c \in Blocks \ {a, b} :
          /\ immediate_post_dominator(ipdom, c) = {b}
          /\ immediate_post_dominator(ipdom, b) = {a}
          /\ strictly_post_dominates(ipdom, a, c)
          /\ immediate_common_post_dominator(ipdom, a, c) = {a}
          /\ immediate_common_post_dominator(ipdom, c, a) = {a}

\* The ipdom chain of a: a and the blocks that post-dominate it.
IpdomChain(a) == {x \in Blocks : post_dominates(ipdom, x, a)}

\* C22: immediate_common_post_dominator(a, b) is None exactly when the ipdom
\* chains of a and b share no real block, for all a and b; the virtual exit is
\* never returned as Some.
C22_IcpdNoneIffNoCommonAll ==
    PdDone =>
        \A a \in Blocks : \A b \in Blocks :
            /\ immediate_common_post_dominator(ipdom, a, b) = {}
                  <=> IpdomChain(a) \cap IpdomChain(b) = {}
            /\ virtual_exit \notin immediate_common_post_dominator(ipdom, a, b)

\* C22 as it holds: for two different blocks the result is None exactly when their
\* chains share no real block; for a = b it is None exactly when a has no
\* immediate post-dominator; the result is a real block, never the virtual exit.
C22_IcpdNoneIffNoCommon ==
    PdDone =>
        \A a \in Blocks : \A b \in Blocks :
            /\ a # b =>
                  (immediate_common_post_dominator(ipdom, a, b) = {}
                      <=> IpdomChain(a) \cap IpdomChain(b) = {})
            /\ a = b =>
                  (immediate_common_post_dominator(ipdom, a, b) = {}
                      <=> immediate_post_dominator(ipdom, a) = {})
            /\ virtual_exit \notin immediate_common_post_dominator(ipdom, a, b)
            /\ immediate_common_post_dominator(ipdom, a, b) \subseteq Blocks

\* A computed tree with two exits: their chains share no block and the result is
\* None, while a block below one of them has that exit as the result.
C22_Witness ==
    /\ PdDone
    /\ \E a \in Blocks : \E b \in Blocks \ {a} :
          /\ {a, b} \subseteq DOMAIN ipdom
          /\ ipdom[a] = virtual_exit
          /\ ipdom[b] = virtual_exit
          /\ immediate_common_post_dominator(ipdom, a, b) = {}
          /\ \E c \in Blocks \ {a, b} :
                /\ immediate_common_post_dominator(ipdom, c, a) = {a}
                /\ immediate_common_post_dominator(ipdom, c, b) = {}

\* The blocks that no edge leaves.
NoSuccessors == {b \in Blocks : ~ \E e \in Edges : e[1] = b}

\* The last block in CFG order.
LastBlock == CHOOSE b \in Blocks : \A c \in Blocks : c <= b

\* C23: after PostDominatorTree::compute on a non-empty CFG, exit_blocks is the
\* set of the blocks with no successors, or the last block alone when every block
\* has a successor; every exit block has the virtual exit as its ipdom and no
\* immediate post-dominator.
C23_ExitBlocks ==
    (PdDone /\ Blocks # {}) =>
        /\ exit_blocks = IF NoSuccessors # {} THEN NoSuccessors ELSE {LastBlock}
        /\ \A e \in exit_blocks :
              /\ e \in DOMAIN ipdom
              /\ ipdom[e] = virtual_exit
              /\ immediate_post_dominator(ipdom, e) = {}

\* The tree of a CFG of three or more blocks, each with a successor, is computed:
\* the last block is the exit and another block has it as immediate
\* post-dominator.
C23_Witness ==
    /\ PdDone
    /\ Cardinality(Blocks) >= 3
    /\ NoSuccessors = {}
    /\ exit_blocks = {LastBlock}
    /\ ipdom[LastBlock] = virtual_exit
    /\ \E b \in Blocks \ {LastBlock} : immediate_post_dominator(ipdom, b) = {LastBlock}

\* C24: after DominatorTree::compute and LoopInfo::analyze, the blocks with an idom
\* entry are the blocks reachable from the entry; a block that is not reachable
\* has no idom entry, is dominated by no other block, dominates no other block,
\* and is in no loop.
C24_UnreachableExcluded ==
    LoopsDone =>
        /\ DOMAIN idom = Reachable
        /\ \A u \in Blocks \ Reachable :
              /\ u \notin DOMAIN idom
              /\ \A x \in Blocks \ {u} :
                    ~dominates(idom, x, u) /\ ~dominates(idom, u, x)
              /\ \A k \in DOMAIN loops : u \notin loops[k].blocks

\* C25: for every block x, dominance_frontier(cfg, x) is the set of the blocks s
\* that are a successor of a block y that x dominates and that x does not
\* strictly dominate; so x is in its own frontier when a block it dominates has
\* an edge to x.
C25_DominanceFrontier ==
    DomDone =>
        \A x \in Blocks :
            /\ dominance_frontier(cfg, idom, dom_children, x) =
                  {s \in Blocks :
                      /\ \E y \in Blocks : dominates(idom, x, y) /\ <<y, s>> \in Edges
                      /\ ~strictly_dominates(idom, x, s)}
            /\ (\E y \in Blocks : dominates(idom, x, y) /\ <<y, x>> \in Edges) =>
                  x \in dominance_frontier(cfg, idom, dom_children, x)

\* A computed tree where a block x that is not the entry dominates another block
\* with an edge back to x, so that x is in its own frontier, and where x
\* has a block other than x in its frontier as well.
C25_Witness ==
    /\ DomDone
    /\ \E x \in Blocks \ {cfg.entry_block} :
          /\ \E y \in Blocks \ {x} : dominates(idom, x, y) /\ <<y, x>> \in Edges
          /\ x \in dominance_frontier(cfg, idom, dom_children, x)
          /\ dominance_frontier(cfg, idom, dom_children, x) \ {x} # {}

\* C29: the two views of dominance agree: b is in dominated_by(x) if and only if
\* dominates(x, b); the children map is the inverse of the idom map without the
\* self-entry of the entry block.
C29_DominatedByAgrees ==
    DomDone =>
        /\ \A x \in Blocks : \A b \in Blocks :
              b \in dominated_by(dom_children, x) <=> dominates(idom, x, b)
        /\ \A x \in Blocks : dominated_by(dom_children, x) \subseteq Blocks
        /\ \A p \in Blocks : \A c \in Blocks :
              (p \in DOMAIN dom_children /\ c \in dom_children[p])
                  <=> (c \in DOMAIN idom /\ idom[c] = p /\ c # p)
        /\ DOMAIN dom_children \subseteq Blocks

\* A computed tree where a block x that is not the entry dominates a block b
\* through a third block, and dominated_by(x) holds b.
C29_Witness ==
    /\ DomDone
    /\ \E x \in DOMAIN dom_children \ {cfg.entry_block} :
          \E c \in DOMAIN dom_children \ {x} : \E b \in Blocks \ {x, c} :
              /\ c \in dom_children[x]
              /\ b \in dom_children[c]
              /\ dominates(idom, x, b)
              /\ b \in dominated_by(dom_children, x)

\* The 16-bit little-endian unit number k (from 0) of the script from cursor o.
UnitAt(o, k) == script[o + 2 * k + 1] + 256 * script[o + 2 * k + 2]

\* The unit is a scalar value: it is not a surrogate.
NotSurrogate(unit) == unit < 55296 \/ unit > 57343

\* C26: read_string16 returns the code points of the units before the first zero
\* unit, in order, without the surrogates; the cursor advances by 2 bytes for
\* every unit read, the omitted units and the terminator included.
C26_ReadString16 ==
    (rd.op = "read_string16" /\ rd.outcome = "ok") =>
        \E n \in 0..(Len(script) \div 2) :
            /\ rd.from + 2 * (n + 1) <= Len(script)
            /\ UnitAt(rd.from, n) = 0
            /\ \A k \in 0..(n - 1) : UnitAt(rd.from, k) # 0
            /\ rd.value = SelectSeq([k \in 1..n |-> UnitAt(rd.from, k - 1)], NotSurrogate)
            /\ offset = rd.from + 2 * (n + 1)

\* A string of one char was read from three units: a surrogate was omitted.
C26_Witness ==
    /\ rd.op = "read_string16"
    /\ rd.outcome = "ok"
    /\ rd.from = 0
    /\ script = <<0, 216, 0, 224, 0, 0>>
    /\ rd.value = <<57344>>
    /\ offset = 6

\* The powers of 256 below 2^32.
Pow256 == <<1, 256, 65536, 16777216>>

\* Byte k (from 0, least significant first) of a number, in two's complement
\* when it is negative.
ByteOf(v, k) == (v \div Pow256[k + 1]) % 256

\* Byte k (from 0) of a number kept as 16-bit limbs, least significant first.
LimbByteOf(limbs, k) == ByteOf(limbs[(k \div 2) + 1], k % 2)

\* C27: read_word, read_int and read_qword return the value whose byte k, least
\* significant first, is script[offset + k], read_int as two's complement;
\* read_skip_count returns the same 32 bits as an unsigned value, read_int's
\* result modulo 2^32.
C27_LittleEndian ==
    rd.outcome = "ok" =>
        /\ rd.op = "read_word" =>
              /\ \A k \in 0..1 : ByteOf(rd.value, k) = script[rd.from + k + 1]
              /\ rd.value \in 0..65535
        /\ rd.op = "read_int" =>
              /\ \A k \in 0..3 : ByteOf(rd.value, k) = script[rd.from + k + 1]
              /\ rd.value < 0 <=> script[rd.from + 4] >= 128
        /\ rd.op = "read_qword" =>
              /\ \A k \in 0..7 : LimbByteOf(rd.value, k) = script[rd.from + k + 1]
              /\ \A j \in 1..4 : rd.value[j] \in 0..65535
        /\ rd.op = "read_skip_count" =>
              /\ \A k \in 0..3 : LimbByteOf(rd.value, k) = script[rd.from + k + 1]
              /\ \A j \in 1..2 : rd.value[j] \in 0..65535
              /\ LET int_value == read_int(script, rd.from).value
                 IN rd.value = <<int_value % 65536, (int_value \div 65536) % 65536>>

\* The skip count 0xDFFFD800 was read: as an i32 the same bits are negative.
C27_Witness ==
    /\ rd.op = "read_skip_count"
    /\ rd.outcome = "ok"
    /\ script = <<0, 216, 255, 223>>
    /\ rd.value = <<55296, 57343>>
    /\ read_int(script, 0).value = -536881152

\* The loops reached from the loops of S by n parent links.
RECURSIVE ParentsAfter(_, _)
ParentsAfter(S, n) ==
    IF n = 0 THEN S
    ELSE ParentsAfter(UNION {loops[k].parent : k \in S}, n - 1)

\* C28: after LoopInfo::analyze the parent links of the loops have no cycle: the
\* walk of Loop::nesting_depth from any loop ends, within as many links as there
\* are loops; no loop is its own parent and no two loops are each other's.
C28_LoopParentsAcyclic ==
    LoopsDone =>
        \A k \in DOMAIN loops :
            /\ ParentsAfter({k}, Len(loops)) = {}
            /\ loops[k].parent # {k}
            /\ \A j \in DOMAIN loops :
                  ~(loops[k].parent = {j} /\ loops[j].parent = {k})

\* C30: the indent level never underflows (drop_indent at level 0 leaves it 0),
\* and format_statement and format return with the indent level they were
\* entered with, for every statement, SwitchValue with any number of cases
\* included.
C30_IndentBalanced ==
    /\ indent_level \in Nat
    /\ (fmt_call.op = "drop_indent" /\ fmt_call.entry_level = 0) => indent_level = 0
    /\ (fmt_call.op \in {"format_statement", "format"} /\ fmt_call.outcome = "ok") =>
          indent_level = fmt_call.entry_level

\* A SwitchValue of two cases was formatted at level 0 and returned.
C30_Witness ==
    /\ fmt_call = [op |-> "format_statement", entry_level |-> 0, outcome |-> "ok"]
    /\ expr.kind = "SwitchValue"
    /\ NumCases(expr) = 2
    /\ indent_level = 0

====
